---- MODULE Spec2Model ----
(***************************************************************************)
(* A model of the chat backend's intent router (AgentRouterService), the   *)
(* flight assistant (FlightAgentService), the personal assistant           *)
(* (PersonalAgentService) and the parameter extractor (FlightPlanner).     *)
(*                                                                         *)
(* Messages are TLA+ strings and the string tests of the source            *)
(* (String.includes, the regular expressions) are computed character by    *)
(* character.  Confidence scores are IEEE 754 doubles, computed with the     *)
(* machine's rounding (section Numbers).                                   *)
(***************************************************************************)
EXTENDS Integers, Sequences, FiniteSets, TLC

(***************************************************************************)
(* Strings                                                                 *)
(***************************************************************************)
charAt(s, i) == IF i >= 1 /\ i <= Len(s) THEN SubSeq(s, i, i) ELSE ""

CharsOf(s) == {charAt(s, i) : i \in 1..Len(s)}

UpperCaseLetters == "ABCDEFGHIJKLMNOPQRSTUVWXYZ"

LowerCaseLetters == "abcdefghijklmnopqrstuvwxyz"

UpperSet == CharsOf(UpperCaseLetters)

LowerSet == CharsOf(LowerCaseLetters)

DigitSet == CharsOf("0123456789")

WordSet == UpperSet \cup LowerSet \cup DigitSet \cup {"_"}

SpaceSet == {" ", "\n", "\t", "\r"}

LowerOf == [c \in UpperSet |->
              charAt(LowerCaseLetters, CHOOSE i \in 1..26 : charAt(UpperCaseLetters, i) = c)]

UpperOf == [c \in LowerSet |->
              charAt(UpperCaseLetters, CHOOSE i \in 1..26 : charAt(LowerCaseLetters, i) = c)]

RECURSIVE toLowerCase(_)
toLowerCase(s) ==
    IF s = "" THEN ""
    ELSE IF Len(s) = 1 THEN (IF s \in UpperSet THEN LowerOf[s] ELSE s)
    ELSE toLowerCase(SubSeq(s, 1, Len(s) \div 2))
         \o toLowerCase(SubSeq(s, Len(s) \div 2 + 1, Len(s)))

RECURSIVE toUpperCase(_)
toUpperCase(s) ==
    IF s = "" THEN ""
    ELSE IF Len(s) = 1 THEN (IF s \in LowerSet THEN UpperOf[s] ELSE s)
    ELSE toUpperCase(SubSeq(s, 1, Len(s) \div 2))
         \o toUpperCase(SubSeq(s, Len(s) \div 2 + 1, Len(s)))

\* s.substring starting at i has k as a prefix
startsWithAt(s, k, i) == i >= 1 /\ i + Len(k) - 1 <= Len(s) /\ SubSeq(s, i, i + Len(k) - 1) = k

\* String.prototype.includes
includes(s, k) == \E i \in 1..(Len(s) - Len(k) + 1) : SubSeq(s, i, i + Len(k) - 1) = k

\* Array.prototype.some over a list of keywords with String.includes
includesAny(s, list) == \E j \in 1..Len(list) : includes(s, list[j])

isDigitAt(s, i) == i >= 1 /\ i <= Len(s) /\ charAt(s, i) \in DigitSet

isWordAt(s, i) == i >= 1 /\ i <= Len(s) /\ charAt(s, i) \in WordSet

isSpaceAt(s, i) == i >= 1 /\ i <= Len(s) /\ charAt(s, i) \in SpaceSet

isLetterAt(s, i) == i >= 1 /\ i <= Len(s) /\ charAt(s, i) \in (UpperSet \cup LowerSet)

\* the regular expression assertion \b between the characters i-1 and i
boundaryAt(s, i) == isWordAt(s, i - 1) # isWordAt(s, i)

\* \bk\b matches at i
wordAt(s, k, i) == startsWithAt(s, k, i) /\ boundaryAt(s, i) /\ boundaryAt(s, i + Len(k))

\* /\b(k1|k2|...)\b/.test(s)
hasAnyWord(s, list) == \E j \in 1..Len(list) : \E i \in 1..(Len(s) - Len(list[j]) + 1) : wordAt(s, list[j], i)

\* /\d{1,2}[-\/]\d{1,2}/.test(s): a digit, a separator, a digit
hasShortDate(s) ==
    \E i \in 1..(Len(s) - 2) : isDigitAt(s, i) /\ charAt(s, i + 1) \in {"-", "/"} /\ isDigitAt(s, i + 2)

Min(a, b) == IF a <= b THEN a ELSE b

Max(a, b) == IF a >= b THEN a ELSE b

minOf(S) == CHOOSE x \in S : \A y \in S : x <= y

maxOf(S) == CHOOSE x \in S : \A y \in S : x >= y

(***************************************************************************)
(* Numbers.  A score is an IEEE 754 double (the JavaScript number type).   *)
(* A double x with x = 0 or x >= 2^-7 is a multiple of 2^-60 and is held   *)
(* exactly, as the digits of x * 2^60 in base 2^15, least significant      *)
(* first and without a leading zero; the arithmetic rounds to 53           *)
(* significant binary digits, ties to even, as the machine does.  Every    *)
(* score of the router is 0 or at least 0.06.                              *)
(***************************************************************************)
DigitBits == 15

FractionDigits == 4

SignificandBits == 53

DigitBase == 2 ^ DigitBits

zeros(k) == [i \in 1..k |-> 0]

digitAt(a, i) == IF i <= Len(a) THEN a[i] ELSE 0

RECURSIVE trimDigits(_)
trimDigits(a) ==
    IF a # <<>> /\ a[Len(a)] = 0 THEN trimDigits(SubSeq(a, 1, Len(a) - 1)) ELSE a

RECURSIVE natDigits(_)
natDigits(n) == IF n = 0 THEN <<>> ELSE <<n % DigitBase>> \o natDigits(n \div DigitBase)

RECURSIVE bitLength(_)
bitLength(n) == IF n = 0 THEN 0 ELSE 1 + bitLength(n \div 2)

\* the number of binary digits of a
bits(a) == IF a = <<>> THEN 0 ELSE DigitBits * (Len(a) - 1) + bitLength(a[Len(a)])

\* 2^k
powerOfTwo(k) == zeros(k \div DigitBits) \o <<2 ^ (k % DigitBits)>>

RECURSIVE addFrom(_, _, _, _)
addFrom(a, b, i, carry) ==
    IF i > Len(a) /\ i > Len(b) THEN natDigits(carry)
    ELSE <<(digitAt(a, i) + digitAt(b, i) + carry) % DigitBase>>
         \o addFrom(a, b, i + 1, (digitAt(a, i) + digitAt(b, i) + carry) \div DigitBase)

add(a, b) == addFrom(a, b, 1, 0)

\* a - b for a >= b
RECURSIVE subtractFrom(_, _, _, _)
subtractFrom(a, b, i, borrow) ==
    IF i > Len(a) THEN <<>>
    ELSE <<(DigitBase + digitAt(a, i) - digitAt(b, i) - borrow) % DigitBase>>
         \o subtractFrom(a, b, i + 1, IF digitAt(a, i) - digitAt(b, i) - borrow < 0 THEN 1 ELSE 0)

subtract(a, b) == trimDigits(subtractFrom(a, b, 1, 0))

\* a times one digit
RECURSIVE scaleFrom(_, _, _, _)
scaleFrom(a, digit, i, carry) ==
    IF i > Len(a) THEN natDigits(carry)
    ELSE <<(a[i] * digit + carry) % DigitBase>>
         \o scaleFrom(a, digit, i + 1, (a[i] * digit + carry) \div DigitBase)

RECURSIVE multiplyFrom(_, _, _)
multiplyFrom(a, b, i) ==
    IF i > Len(b) THEN <<>>
    ELSE add(zeros(i - 1) \o scaleFrom(a, b[i], 1, 0), multiplyFrom(a, b, i + 1))

multiply(a, b) == trimDigits(multiplyFrom(a, b, 1))

\* quotient and remainder of the division by a positive integer below 2^15
RECURSIVE divide(_, _)
divide(a, den) ==
    LET step(upper, cur) == [q |-> <<cur \div den>> \o upper.q, r |-> cur % den]
        next(upper) == step(upper, upper.r * DigitBase + Head(a))
    IN  IF a = <<>> THEN [q |-> <<>>, r |-> 0] ELSE next(divide(Tail(a), den))

\* a < b
less(a, b) ==
    \/ Len(a) < Len(b)
    \/ /\ Len(a) = Len(b)
       /\ \E i \in 1..Len(a) : a[i] < b[i] /\ \A j \in (i + 1)..Len(a) : a[j] = b[j]

\* a modulo 2^k
lowBits(a, k) ==
    trimDigits([i \in 1..Len(a) |->
                   IF i <= k \div DigitBits THEN a[i]
                   ELSE IF i = k \div DigitBits + 1 THEN a[i] % (2 ^ (k % DigitBits))
                   ELSE 0])

\* round to nearest, ties to even; inexact: the value has digits below those of a
roundToDouble(a, inexact) ==
    LET isOdd(k) == (a[k \div DigitBits + 1] \div (2 ^ (k % DigitBits))) % 2 = 1
        roundUp(k, rest, half) ==
            \/ less(half, rest)
            \/ rest = half /\ (inexact \/ isOdd(k))
        roundAt(k, rest) ==
            IF roundUp(k, rest, powerOfTwo(k - 1))
            THEN add(subtract(a, rest), powerOfTwo(k)) ELSE subtract(a, rest)
    IN  IF bits(a) <= SignificandBits THEN a
        ELSE roundAt(bits(a) - SignificandBits, lowBits(a, bits(a) - SignificandBits))

\* the number a decimal literal n / 10^d denotes
Dec(n, d) ==
    LET nearest(division) == roundToDouble(trimDigits(division.q), division.r # 0)
    IN  nearest(divide(zeros(FractionDigits) \o natDigits(n), 10 ^ d))

plus(a, b) == roundToDouble(add(a, b), FALSE)

\* Math.abs(a - b)
absDifference(a, b) ==
    roundToDouble(IF less(a, b) THEN subtract(b, a) ELSE subtract(a, b), FALSE)

times(a, b) ==
    LET scaled(product) ==
            IF Len(product) <= FractionDigits THEN <<>>
            ELSE roundToDouble(SubSeq(product, FractionDigits + 1, Len(product)),
                               \E i \in 1..FractionDigits : product[i] # 0)
    IN  scaled(multiply(a, b))

\* a faulty variant: no upper limit
keepScore(a, b) == a

\* Math.min, Math.max
MathMin(a, b) == IF less(b, a) THEN b ELSE a

MathMax(a, b) == IF less(a, b) THEN b ELSE a

One == Dec(1, 0)

(***************************************************************************)
(* AgentRouterService.calculateFlightConfidence                            *)
(***************************************************************************)
flightKeywords == <<
    [keywords |-> <<"flight", "flights", "fly", "flying">>, weight |-> Dec(4, 1)],
    [keywords |-> <<"airport", "departure", "arrival", "layover", "stopover">>, weight |-> Dec(35, 2)],
    [keywords |-> <<"ticket", "booking", "book", "reserve">>, weight |-> Dec(3, 1)],
    [keywords |-> <<"airline", "airways", "air india", "indigo", "spicejet">>, weight |-> Dec(35, 2)],
    [keywords |-> <<"round trip", "one way", "return flight", "direct flight">>, weight |-> Dec(4, 1)],
    [keywords |-> <<"travel", "trip", "journey">>, weight |-> Dec(3, 1)],
    [keywords |-> <<"destination", "going to", "want to go">>, weight |-> Dec(25, 2)],
    [keywords |-> <<"from", "to", "departure", "arrival">>, weight |-> Dec(2, 1)] >>

\* the loop "for group: for keyword: if includes then score += weight; break"
RECURSIVE sumGroups(_, _, _, _)
sumGroups(score, groups, lowerMessage, n) ==
    IF n = 0 THEN score
    ELSE IF includesAny(lowerMessage, groups[n].keywords)
    THEN plus(sumGroups(score, groups, lowerMessage, n - 1), groups[n].weight)
    ELSE sumGroups(score, groups, lowerMessage, n - 1)

cityPattern == <<"mumbai", "delhi", "bangalore", "goa", "chennai", "kolkata", "hyderabad",
    "surat", "pune", "ahmedabad", "jaipur", "lucknow", "kochi", "cochin", "thiruvananthapuram",
    "trivandrum", "chandigarh", "coimbatore", "vadodara", "baroda", "indore", "nagpur",
    "visakhapatnam", "bhubaneswar", "patna", "ranchi", "udaipur", "amritsar", "srinagar",
    "guwahati", "imphal", "agartala", "varanasi">>

hasCityMentions(message) == hasAnyWord(toLowerCase(message), cityPattern)

monthWords == <<"january", "february", "march", "april", "may", "june", "july", "august",
    "september", "october", "november", "december", "jan", "feb", "mar", "apr", "may", "jun",
    "jul", "aug", "sep", "sept", "oct", "nov", "dec">>

\* /\d{1,2}[-\/]\d{1,2}[-\/]?\d{0,4}/ matches exactly when digit, separator, digit occur in a row
hasDateMentions(message) ==
    \/ hasShortDate(message)
    \/ hasAnyWord(toLowerCase(message), monthWords)
    \/ hasAnyWord(toLowerCase(message), <<"tomorrow", "today", "next week", "next month">>)

hasTravelIntent(message) ==
    includesAny(toLowerCase(message),
                <<"want to go", "planning to", "need to", "looking for", "search for", "find flights">>)

hasUrgencyWords(message) ==
    includesAny(toLowerCase(message), <<"urgent", "asap", "immediately", "quickly", "fast", "soon">>)

\* Object.values(contextMultipliers).reduce((a, b) => a * b, 1)
contextMultipliers(message) ==
    times(times(times(times(times(One,
        IF hasCityMentions(message) THEN Dec(13, 1) ELSE One),
        IF hasDateMentions(message) THEN Dec(12, 1) ELSE One),
        IF hasTravelIntent(message) THEN Dec(14, 1) ELSE One),
        IF includes(message, "?") THEN Dec(11, 1) ELSE One),
        IF hasUrgencyWords(message) THEN Dec(12, 1) ELSE One)

\* a faulty variant: the bonus is added before the penalty scales the score
calculateFlightConfidenceBonusFirst(message) ==
    LET penalty(lowerMessage, score) ==
            IF includesAny(lowerMessage, <<"train", "bus", "car", "drive", "walk">>)
            THEN times(score, Dec(7, 1)) ELSE score
        bonus(lowerMessage, score) ==
            penalty(lowerMessage,
                    IF includesAny(lowerMessage, <<"show", "find", "search", "look", "check", "available", "availability">>)
                    THEN plus(score, Dec(1, 1)) ELSE score)
        scoreOf(lowerMessage) ==
            bonus(lowerMessage, times(sumGroups(<<>>, flightKeywords, lowerMessage, Len(flightKeywords)),
                                      contextMultipliers(message)))
    IN  MathMin(scoreOf(toLowerCase(message)), One)

calculateFlightConfidence(message) ==
    LET bonus(lowerMessage, score) ==
            IF includesAny(lowerMessage,
                   <<"show", "find", "search", "look", "check", "available", "availability">>)
            THEN plus(score, Dec(1, 1)) ELSE score
        penalty(lowerMessage, score) ==
            bonus(lowerMessage,
                  IF includesAny(lowerMessage, <<"train", "bus", "car", "drive", "walk">>)
                  THEN times(score, Dec(7, 1)) ELSE score)
        scoreOf(lowerMessage) ==
            penalty(lowerMessage,
                    times(sumGroups(<<>>, flightKeywords, lowerMessage, Len(flightKeywords)),
                          contextMultipliers(message)))
    IN  MathMin(scoreOf(toLowerCase(message)), One)

(***************************************************************************)
(* AgentRouterService.calculatePersonalConfidence                          *)
(***************************************************************************)
personalKeywords == <<
    [keywords |-> <<"hello", "hi", "hey", "greetings", "good morning", "good afternoon",
                    "good evening">>, weight |-> Dec(5, 1)],
    [keywords |-> <<"how are you", "what's up", "sup", "how do you do">>, weight |-> Dec(5, 1)],
    [keywords |-> <<"help", "assist", "support", "can you help">>, weight |-> Dec(3, 1)],
    [keywords |-> <<"thank", "thanks", "appreciate", "grateful">>, weight |-> Dec(4, 1)],
    [keywords |-> <<"who are you", "what can you do", "your name", "what are you">>, weight |-> Dec(5, 1)],
    [keywords |-> <<"tell me about", "explain", "what is", "describe">>, weight |-> Dec(3, 1)] >>

personalInfoPatterns == <<
    [keywords |-> <<"my name is", "i am", "i'm", "call me", "i'm called">>, weight |-> Dec(7, 1)],
    [keywords |-> <<"my age is", "i am", "years old", "i'm", "aged">>, weight |-> Dec(6, 1)],
    [keywords |-> <<"i live in", "i'm from", "from", "i reside in", "i stay in">>, weight |-> Dec(6, 1)],
    [keywords |-> <<"i work as", "i am a", "my job", "i do", "i'm employed as">>, weight |-> Dec(6, 1)],
    [keywords |-> <<"my email", "my phone", "my number", "contact me at">>, weight |-> Dec(6, 1)] >>

personalInfoQueries == <<
    [keywords |-> <<"what is my name", "what's my name", "my name", "do you know my name">>,
     weight |-> Dec(6, 1)],
    [keywords |-> <<"who am i", "what do you know about me", "tell me about myself">>, weight |-> Dec(6, 1)],
    [keywords |-> <<"where am i from", "where do i live", "my location">>, weight |-> Dec(6, 1)],
    [keywords |-> <<"how old am i", "what is my age", "my age">>, weight |-> Dec(6, 1)],
    [keywords |-> <<"what do i do", "my job", "my work", "my occupation">>, weight |-> Dec(5, 1)] >>

\* String.prototype.trim
RECURSIVE trimStart(_)
trimStart(s) == IF s # "" /\ Head(s) \in SpaceSet THEN trimStart(Tail(s)) ELSE s

RECURSIVE trimEnd(_)
trimEnd(s) ==
    IF s # "" /\ charAt(s, Len(s)) \in SpaceSet THEN trimEnd(SubSeq(s, 1, Len(s) - 1)) ELSE s

trim(s) == trimEnd(trimStart(s))

\* s.split(' ').length: one more than the number of blanks
splitLength(s) == 1 + Cardinality({i \in 1..Len(s) : charAt(s, i) = " "})

calculatePersonalConfidence(message) ==
    LET penalty(lowerMessage, score) ==
            IF includesAny(lowerMessage,
                   <<"flight", "fly", "book", "airport", "departure", "arrival">>)
            THEN times(score, Dec(8, 1)) ELSE score
        question(lowerMessage, score) ==
            penalty(lowerMessage,
                    IF includes(message, "?")
                       /\ ~includesAny(lowerMessage, <<"flight", "fly", "book", "airport">>)
                    THEN plus(score, Dec(2, 1)) ELSE score)
        short(lowerMessage, score) ==
            question(lowerMessage,
                     IF splitLength(trim(message)) <= 3
                        /\ ~includesAny(lowerMessage, <<"flight", "fly", "book">>)
                     THEN plus(score, Dec(3, 1)) ELSE score)
        scoreOf(lowerMessage) ==
            short(lowerMessage,
                  sumGroups(sumGroups(sumGroups(<<>>,
                      personalInfoPatterns, lowerMessage, Len(personalInfoPatterns)),
                      personalInfoQueries, lowerMessage, Len(personalInfoQueries)),
                      personalKeywords, lowerMessage, Len(personalKeywords)))
    IN  MathMin(scoreOf(toLowerCase(message)), One)

(***************************************************************************)
(* AgentRouterService.getDynamicThreshold                                  *)
(***************************************************************************)
\* a faulty variant: a base threshold of 0.4
raisedBaseThreshold == Dec(4, 1)

baseThreshold == Dec(3, 1)

\* a faulty variant: the strict threshold also at a difference of exactly 0.1
getDynamicThresholdInclusive(flightScore, personalScore) ==
    LET adjust(scoreDifference) ==
            IF ~less(Dec(1, 1), scoreDifference) THEN Dec(5, 1)
            ELSE IF less(Dec(3, 1), scoreDifference) THEN Dec(25, 2)
            ELSE baseThreshold
    IN  adjust(absDifference(flightScore, personalScore))

\* a faulty variant: lenient for close scores, strict for a clear winner
getDynamicThresholdSwapped(flightScore, personalScore) ==
    LET adjust(scoreDifference) ==
            IF less(scoreDifference, Dec(1, 1)) THEN Dec(25, 2)
            ELSE IF less(Dec(3, 1), scoreDifference) THEN Dec(5, 1)
            ELSE baseThreshold
    IN  adjust(absDifference(flightScore, personalScore))

getDynamicThreshold(flightScore, personalScore) ==
    LET adjust(scoreDifference) ==
            IF less(scoreDifference, Dec(1, 1)) THEN Dec(5, 1)
            ELSE IF less(Dec(3, 1), scoreDifference) THEN Dec(25, 2)
            ELSE baseThreshold
    IN  adjust(absDifference(flightScore, personalScore))

(***************************************************************************)
(* The texts of the model.  UserMessages are the prompts a client sends;   *)
(* GeneratedTexts are completions of the generative text service; the      *)
(* remaining texts are the fixed replies written in the source.  The       *)
(* emoji of the multi-route reply is written "#": like the emoji it is     *)
(* neither a word character nor white space and occurs in no keyword.      *)
(***************************************************************************)
msgGreeting == "Hi, how are you?"

msgFullQuery == "Find flights from PEK to AUS on 2025-10-18 returning 2025-10-24"

msgShortDate == "Oct 18"

msgMultiRoute == "Mumbai to Dubai, also Delhi to London, also Bangalore to Singapore"

msgJourney == "explain my journey plan soon"

msgNoDate == "Book a flight from Mumbai to Pune"

msgName == "My name is Sam"

msgBook == "book"

UserMessages ==
    {msgGreeting, msgFullQuery, msgShortDate, msgMultiRoute, msgJourney, msgNoDate, msgName,
     msgBook}

genAskDate == "What's your departure date?"

genNeutral == "Nice to meet you!"

GeneratedTexts == {genAskDate, genNeutral}

\* FlightAgentService.processFlightQuery, the multi-route reply
multiRouteReply == "I noticed you're asking about multiple flight searches at once! #\n\nTo give you the most accurate results, I'd like to help you with each search one at a time.\n\n**Which flight would you like me to search for first?**\n\nPlease provide:\n- Departure city/airport\n- Arrival city/airport\n- Travel dates\n\nOnce I find those flights for you, we can move on to the next search!"

\* FlightAgentService.getAIFlightHelp: the reply for an empty completion, and for a failed call
flightHelpDefault == "I'd love to help you find flights! Could you tell me where you'd like to fly from, where to, and when?"

flightHelpFallback == "I'd love to help you find flights! Could you tell me:\n- Where you're flying from\n- Your destination\n- Your travel dates"

\* FlightAgentService.handleFlightSearchError
searchErrorDefault == "I had trouble finding flights. Try different dates or nearby airports?"

searchErrorFallback == "I encountered an issue with the flight search. Could you try different dates or airports?"

\* FlightAgentService.processFlightQuery, catch
flightAgentError == "I encountered an error while searching for flights. Please try again or rephrase your request."

\* PersonalAgentService.processMessage, empty completion and catch
personalDefault == "I'm here to help! How can I assist you today?"

(***************************************************************************)
(* Regular-expression helpers: runs of a character class, and the list of  *)
(* the non-overlapping matches of a /g expression, left to right.          *)
(***************************************************************************)
\* the last index of the run of characters of cls that starts at a (a - 1: no run)
RECURSIVE spanEnd(_, _, _)
spanEnd(s, a, cls) ==
    IF a >= 1 /\ a <= Len(s) /\ charAt(s, a) \in cls THEN spanEnd(s, a + 1, cls) ELSE a - 1

NoMatch == [start |-> 0, end |-> 0, w1 |-> "", w2 |-> ""]

matchText(s, m) == SubSeq(s, m.start, m.end)

\* /\bfrom\s+(\w+)\s+to\s+(\w+)/ at i: \s+ and \w+ are greedy and each is followed by a
\* character outside its class, so each takes its whole run
\* (\w+)\s+to\s+(\w+) from w1 on, for a match that starts at i
wordToWordAt(s, i, w1) ==
    LET secondWord(w1e, w2, w2e) ==
            IF w2e >= w2 THEN [start |-> i, end |-> w2e,
                               w1 |-> SubSeq(s, w1, w1e), w2 |-> SubSeq(s, w2, w2e)]
            ELSE NoMatch
        afterTo(w1e, e2, e3) ==
            IF startsWithAt(s, "to", e2 + 1) /\ e3 >= e2 + 3
            THEN secondWord(w1e, e3 + 1, spanEnd(s, e3 + 1, WordSet)) ELSE NoMatch
        afterWord(w1e, e2) ==
            IF e2 >= w1e + 1 THEN afterTo(w1e, e2, spanEnd(s, e2 + 3, SpaceSet)) ELSE NoMatch
        firstWord(w1e) ==
            IF w1e >= w1 THEN afterWord(w1e, spanEnd(s, w1e + 1, SpaceSet)) ELSE NoMatch
    IN  firstWord(spanEnd(s, w1, WordSet))

fromToRouteAt(s, i) ==
    LET afterFrom(e1) == IF e1 >= i + 4 THEN wordToWordAt(s, i, e1 + 1) ELSE NoMatch
    IN  IF boundaryAt(s, i) /\ startsWithAt(s, "from", i)
        THEN afterFrom(spanEnd(s, i + 4, SpaceSet)) ELSE NoMatch

\* /\b(\w+)\s+to\s+(\w+)\b/ at i
standaloneRouteAt(s, i) == IF boundaryAt(s, i) THEN wordToWordAt(s, i, i) ELSE NoMatch

cityAirportNames == <<"mumbai", "delhi", "bangalore", "chennai", "kolkata", "hyderabad", "pune",
    "ahmedabad", "jaipur", "surat", "london", "dubai", "singapore", "bangkok", "tokyo",
    "new york", "paris", "sydney", "hong kong", "kuala lumpur", "jakarta", "manila", "seoul",
    "beijing", "shanghai">>

\* /\b([A-Z]{3}|mumbai|...)\b/i at i: the first alternative that ends at a word boundary
cityAirportAt(s, i) ==
    LET named(names) ==
            IF names = {} THEN NoMatch
            ELSE [start |-> i, end |-> i + Len(cityAirportNames[minOf(names)]) - 1,
                  w1 |-> "", w2 |-> ""]
    IN  IF ~boundaryAt(s, i) THEN NoMatch
        ELSE IF /\ isLetterAt(s, i) /\ isLetterAt(s, i + 1) /\ isLetterAt(s, i + 2)
                /\ boundaryAt(s, i + 3)
        THEN [start |-> i, end |-> i + 2, w1 |-> "", w2 |-> ""]
        ELSE named({j \in 1..Len(cityAirportNames) :
                      startsWithAt(s, cityAirportNames[j], i)
                      /\ boundaryAt(s, i + Len(cityAirportNames[j]))})

routeMatchAt(kind, s, i) ==
    CASE kind = "fromTo" -> fromToRouteAt(s, i)
      [] kind = "standalone" -> standaloneRouteAt(s, i)
      [] kind = "cityAirport" -> cityAirportAt(s, i)

\* String.prototype.match with a /g expression: the matches from position from on
RECURSIVE allMatches(_, _, _)
allMatches(kind, s, from) ==
    LET withRest(m) == <<m>> \o allMatches(kind, s, m.end + 1)
        firstOf(starts) ==
            IF starts = {} THEN <<>> ELSE withRest(routeMatchAt(kind, s, minOf(starts)))
    IN  firstOf({i \in from..Len(s) : routeMatchAt(kind, s, i).end > 0})

\* /\b(w1)\b.*?\b(w2)\b/.test(s): a first word, then on the same line a second word
hasIndicator(s, firsts, seconds) ==
    \E a \in 1..Len(firsts) : \E i \in 1..Len(s) :
        /\ wordAt(s, firsts[a], i)
        /\ \E b \in 1..Len(seconds) : \E j \in (i + Len(firsts[a]))..Len(s) :
              /\ wordAt(s, seconds[b], j)
              /\ \A k \in (i + Len(firsts[a]))..(j - 1) : charAt(s, k) \notin {"\n", "\r"}

\* String.prototype.replace(k, "") of the first occurrence of k
removeFirst(s, k) ==
    LET without(i) == SubSeq(s, 1, i - 1) \o SubSeq(s, i + Len(k), Len(s))
        firstOf(at) == IF at = {} THEN s ELSE without(minOf(at))
    IN  firstOf({i \in 1..(Len(s) - Len(k) + 1) : startsWithAt(s, k, i)})

nonCityWords == {"need", "want", "going", "trying", "planning", "looking", "help", "get", "find"}

(***************************************************************************)
(* FlightAgentService.hasMultipleFlightRoutes                              *)
(***************************************************************************)
\* the first loop: every "from X to Y" match without a non-city word counts, and its text
\* is added to foundRoutes
RECURSIVE countFromTo(_, _, _)
countFromTo(s, matches, n) ==
    IF n = 0 THEN [routeCount |-> 0, foundRoutes |-> {}]
    ELSE LET next(prev, m) ==
                 IF m.w1 \in nonCityWords \/ m.w2 \in nonCityWords THEN prev
                 ELSE [routeCount |-> prev.routeCount + 1,
                       foundRoutes |-> prev.foundRoutes \cup {matchText(s, m)}]
         IN  next(countFromTo(s, matches, n - 1), matches[n])

\* the second loop: a standalone "X to Y" match counts unless it has a non-city word, is
\* already in foundRoutes, or is covered by a route found before
RECURSIVE countStandalone(_, _, _, _)
countStandalone(s, matches, n, start) ==
    IF n = 0 THEN start
    ELSE LET next(prev, m, match) ==
                 IF \/ m.w1 \in nonCityWords \/ m.w2 \in nonCityWords
                    \/ match \in prev.foundRoutes
                    \/ \E existingRoute \in prev.foundRoutes :
                          \/ includes(existingRoute, match)
                          \/ includes(match, removeFirst(existingRoute, "from "))
                 THEN prev
                 ELSE [routeCount |-> prev.routeCount + 1,
                       foundRoutes |-> prev.foundRoutes \cup {match}]
         IN  next(countStandalone(s, matches, n - 1, start), matches[n],
                  matchText(s, matches[n]))

hasMultipleFlightRoutes(message) ==
    LET hasMultiIndicator(lowerMessage) ==
            \/ hasIndicator(lowerMessage, <<"also", "and also", "additionally", "plus", "another">>,
                            <<"flight", "ticket", "trip">>)
            \/ hasIndicator(lowerMessage, <<"first", "second", "third", "1st", "2nd", "3rd">>,
                            <<"flight", "ticket", "trip">>)
        decide(lowerMessage, routeCount, cities) ==
            \/ routeCount >= 3
            \/ (routeCount >= 2 /\ hasMultiIndicator(lowerMessage))
            \/ Len(cities) >= 6
        secondLoop(lowerMessage, afterFromTo, standaloneMatches) ==
            decide(lowerMessage,
                   countStandalone(lowerMessage, standaloneMatches, Len(standaloneMatches),
                                   afterFromTo).routeCount,
                   allMatches("cityAirport", lowerMessage, 1))
        firstLoop(lowerMessage, fromToMatches) ==
            secondLoop(lowerMessage,
                       countFromTo(lowerMessage, fromToMatches, Len(fromToMatches)),
                       allMatches("standalone", lowerMessage, 1))
        scan(lowerMessage) == firstLoop(lowerMessage, allMatches("fromTo", lowerMessage, 1))
    IN  scan(toLowerCase(message))

(***************************************************************************)
(* Numbers, calendar dates and the clock of the extractor.                 *)
(***************************************************************************)
digitValue(c) == (CHOOSE i \in 1..10 : charAt("0123456789", i) = c) - 1

\* parseInt of a non-empty string of digits
RECURSIVE parseInt(_)
parseInt(s) ==
    IF s = "" THEN 0
    ELSE parseInt(SubSeq(s, 1, Len(s) - 1)) * 10 + digitValue(charAt(s, Len(s)))

\* Number.prototype.toString of a natural number
RECURSIVE toString(_)
toString(n) ==
    IF n < 10 THEN charAt("0123456789", n + 1)
    ELSE toString(n \div 10) \o charAt("0123456789", (n % 10) + 1)

\* padStart(2, '0')
padStart2(s) == IF Len(s) < 2 THEN "0" \o s ELSE s

\* new Date(): the day on which the requests are served
today == [year |-> 2025, month |-> 10, day |-> 1]

isLeapYear(y) == (y % 4 = 0 /\ y % 100 # 0) \/ y % 400 = 0

daysInMonth(y, m) ==
    IF m \in {4, 6, 9, 11} THEN 30
    ELSE IF m = 2 THEN (IF isLeapYear(y) THEN 29 ELSE 28)
    ELSE 31

\* the days between 1 January of year y and the first day of month m counted from year y;
\* new Date(y, m - 1, d) accepts months outside 1..12 and carries them into the year
RECURSIVE daysBeforeMonth(_, _)
daysBeforeMonth(y, m) ==
    IF m <= 0 THEN daysBeforeMonth(y, m + 1) - daysInMonth(y - 1, 12 + m)
    ELSE IF m = 1 THEN 0
    ELSE daysBeforeMonth(y, m - 1) + daysInMonth(y + ((m - 2) \div 12), ((m - 2) % 12) + 1)

\* testDate < today for testDate = new Date(currentYear, month - 1, day): midnight of that
\* day against the present moment of today, so today's own date is already past
isBeforeNow(month, day) ==
    daysBeforeMonth(today.year, month) + day <= daysBeforeMonth(today.year, today.month) + today.day

formatDate(year, month, day) ==
    toString(year) \o "-" \o padStart2(toString(month)) \o "-" \o padStart2(toString(day))

\* futureDate.setDate(today.getDate() + offset), then the date part of toISOString()
RECURSIVE carryDate(_, _, _)
carryDate(y, m, d) ==
    IF d <= daysInMonth(y, m) THEN formatDate(y, m, d)
    ELSE IF m = 12 THEN carryDate(y + 1, 1, d - daysInMonth(y, m))
    ELSE carryDate(y, m + 1, d - daysInMonth(y, m))

futureDate(offset) == carryDate(today.year, today.month, today.day + offset)

(***************************************************************************)
(* FlightPlanner.normalizeDate                                             *)
(***************************************************************************)
\* /^\d{4}-\d{2}-\d{2}$/
isIsoDate(s) ==
    /\ Len(s) = 10
    /\ \A i \in {1, 2, 3, 4, 6, 7, 9, 10} : isDigitAt(s, i)
    /\ charAt(s, 5) = "-" /\ charAt(s, 8) = "-"

\* dateStr.split(/[\/\-]/)
RECURSIVE splitDate(_)
splitDate(s) ==
    LET at(i) == <<SubSeq(s, 1, i - 1)>> \o splitDate(SubSeq(s, i + 1, Len(s)))
        firstOf(seps) == IF seps = {} THEN <<s>> ELSE at(minOf(seps))
    IN  firstOf({i \in 1..Len(s) : charAt(s, i) \in {"/", "-"}})

\* a faulty variant: a date in the form YYYY-MM-DD is split like any other
normalizeDateSplit(dateStr) ==
    LET yearNum(year) == IF year < 100 THEN year + 2000 ELSE year
        normalized(parts, day, month) ==
            formatDate(IF Len(parts) = 3 THEN yearNum(parseInt(parts[3]))
                       ELSE IF isBeforeNow(month, day) THEN today.year + 1
                       ELSE today.year,
                       month, day)
        dayMonth(parts, first, second) ==
            normalized(parts,
                       IF first > 12 THEN first ELSE IF second > 12 THEN second ELSE first,
                       IF first > 12 THEN second ELSE IF second > 12 THEN first ELSE second)
        split(parts) ==
            IF Len(parts) \in {2, 3}
            THEN dayMonth(parts, parseInt(parts[1]), parseInt(parts[2]))
            ELSE dateStr
    IN  split(splitDate(dateStr))

\* a faulty variant: the month is read first unless the first part exceeds 12
normalizeDateMonthFirst(dateStr) ==
    LET yearNum(year) == IF year < 100 THEN year + 2000 ELSE year
        normalized(parts, day, month) ==
            formatDate(IF Len(parts) = 3 THEN yearNum(parseInt(parts[3]))
                       ELSE IF isBeforeNow(month, day) THEN today.year + 1
                       ELSE today.year,
                       month, day)
        dayMonth(parts, first, second) ==
            normalized(parts,
                       IF first > 12 THEN first ELSE second,
                       IF first > 12 THEN second ELSE first)
        split(parts) ==
            IF Len(parts) \in {2, 3}
            THEN dayMonth(parts, parseInt(parts[1]), parseInt(parts[2]))
            ELSE dateStr
    IN  IF isIsoDate(dateStr) THEN dateStr ELSE split(splitDate(dateStr))

normalizeDate(dateStr) ==
    LET yearNum(year) == IF year < 100 THEN year + 2000 ELSE year
        normalized(parts, day, month) ==
            formatDate(IF Len(parts) = 3 THEN yearNum(parseInt(parts[3]))
                       ELSE IF isBeforeNow(month, day) THEN today.year + 1
                       ELSE today.year,
                       month, day)
        dayMonth(parts, first, second) ==
            normalized(parts,
                       IF first > 12 THEN first ELSE IF second > 12 THEN second ELSE first,
                       IF first > 12 THEN second ELSE IF second > 12 THEN first ELSE second)
        split(parts) ==
            IF Len(parts) \in {2, 3}
            THEN dayMonth(parts, parseInt(parts[1]), parseInt(parts[2]))
            ELSE dateStr
    IN  IF isIsoDate(dateStr) THEN dateStr ELSE split(splitDate(dateStr))

(***************************************************************************)
(* The patterns of FlightPlanner.extractFlightParams.  Each ...At operator *)
(* gives the index of the last character of the match that starts at i,    *)
(* and 0 when the pattern does not match there.                            *)
(***************************************************************************)
\* the number of digits that start at i, at most max of them
digitsAt(s, i, max) == Min(spanEnd(s, i, DigitSet) - i + 1, max)

\* /\d{4}-\d{2}-\d{2}/
isoDateAt(s, i) ==
    IF /\ digitsAt(s, i, 4) = 4 /\ charAt(s, i + 4) = "-" /\ digitsAt(s, i + 5, 2) = 2
       /\ charAt(s, i + 7) = "-" /\ digitsAt(s, i + 8, 2) = 2
    THEN i + 9 ELSE 0

\* \d{1,2} sep \d{1,2} followed by the year part: "full" is sep \d{4}, "none" is nothing,
\* "optional" is (?:sep \d{2,4})?.  A greedy \d{1,2} that took one digit less would be
\* followed by a digit, never by a separator, so only the longest choice can match.
numericDateAt(s, i, seps, yearPart) ==
    LET year(k, ny) ==
            IF yearPart = "full" THEN (IF charAt(s, k) \in seps /\ ny = 4 THEN k + 4 ELSE 0)
            ELSE IF yearPart = "optional" /\ charAt(s, k) \in seps /\ ny >= 2 THEN k + ny
            ELSE k - 1
        second(j, n2) == IF n2 = 0 THEN 0 ELSE year(j + n2, digitsAt(s, j + n2 + 1, 4))
        first(n1) ==
            IF n1 = 0 \/ charAt(s, i + n1) \notin seps THEN 0
            ELSE second(i + n1 + 1, digitsAt(s, i + n1 + 1, 2))
    IN  first(digitsAt(s, i, 2))

monthMap == <<[name |-> "january", month |-> 1], [name |-> "jan", month |-> 1],
    [name |-> "february", month |-> 2], [name |-> "feb", month |-> 2],
    [name |-> "march", month |-> 3], [name |-> "mar", month |-> 3],
    [name |-> "april", month |-> 4], [name |-> "apr", month |-> 4],
    [name |-> "may", month |-> 5],
    [name |-> "june", month |-> 6], [name |-> "jun", month |-> 6],
    [name |-> "july", month |-> 7], [name |-> "jul", month |-> 7],
    [name |-> "august", month |-> 8], [name |-> "aug", month |-> 8],
    [name |-> "september", month |-> 9], [name |-> "sep", month |-> 9],
    [name |-> "sept", month |-> 9],
    [name |-> "october", month |-> 10], [name |-> "oct", month |-> 10],
    [name |-> "november", month |-> 11], [name |-> "nov", month |-> 11],
    [name |-> "december", month |-> 12], [name |-> "dec", month |-> 12]>>

NoMonthDate == [end |-> 0, month |-> 0, day |-> 0]

\* monthNamePattern at i of the lower-cased input: a month name, blanks, one or two
\* digits, an optional ordinal suffix, and a word boundary
monthNameAt(s, i) ==
    LET suffix(month, d, after) ==
            IF /\ \E x \in {"st", "nd", "rd", "th"} : startsWithAt(s, x, after)
               /\ boundaryAt(s, after + 2)
            THEN [end |-> after + 1, month |-> month, day |-> parseInt(SubSeq(s, d, after - 1))]
            ELSE IF boundaryAt(s, after)
            THEN [end |-> after - 1, month |-> month, day |-> parseInt(SubSeq(s, d, after - 1))]
            ELSE NoMonthDate
        day(month, d, nd) == IF nd \in {1, 2} THEN suffix(month, d, d + nd) ELSE NoMonthDate
        blanks(month, d) == day(month, d, spanEnd(s, d, DigitSet) - d + 1)
        named(n) == blanks(monthMap[n].month,
                           spanEnd(s, i + Len(monthMap[n].name), SpaceSet) + 1)
        firstOf(names) == IF names = {} THEN NoMonthDate ELSE named(CHOOSE m \in names : TRUE)
    IN  IF ~boundaryAt(s, i) THEN NoMonthDate
        ELSE firstOf({n \in 1..Len(monthMap) :
                        /\ startsWithAt(s, monthMap[n].name, i)
                        /\ isSpaceAt(s, i + Len(monthMap[n].name))})

\* /\b([A-Z]{3})\b/
\* a faulty variant: the pattern with the flag i, which takes any word of three letters
airportAtAnyCase(s, i) ==
    IF /\ boundaryAt(s, i) /\ boundaryAt(s, i + 3)
       /\ \A j \in i..(i + 2) : charAt(s, j) \in UpperSet \cup LowerSet
    THEN i + 2 ELSE 0

airportAt(s, i) ==
    IF /\ boundaryAt(s, i) /\ boundaryAt(s, i + 3)
       /\ \A j \in i..(i + 2) : charAt(s, j) \in UpperSet
    THEN i + 2 ELSE 0

dateMatchEnd(kind, s, i) ==
    CASE kind = "iso" -> isoDateAt(s, i)
      [] kind = "slash" -> numericDateAt(s, i, {"/"}, "full")
      [] kind = "dash" -> numericDateAt(s, i, {"-"}, "full")
      [] kind = "short" -> numericDateAt(s, i, {"-"}, "none")
      [] kind = "airport" -> airportAt(s, i)

\* userInput.match(pattern) with a /g pattern: the matched texts from position from on
RECURSIVE matchTexts(_, _, _)
matchTexts(kind, s, from) ==
    LET withRest(i, e) == <<SubSeq(s, i, e)>> \o matchTexts(kind, s, e + 1)
        at(i) == withRest(i, dateMatchEnd(kind, s, i))
        firstOf(starts) == IF starts = {} THEN <<>> ELSE at(minOf(starts))
    IN  firstOf({i \in from..Len(s) : dateMatchEnd(kind, s, i) > 0})

(***************************************************************************)
(* FlightPlanner.extractMonthNameDates                                     *)
(***************************************************************************)
RECURSIVE monthNameDatesFrom(_, _)
monthNameDatesFrom(s, from) ==
    LET year(match) ==
            IF isBeforeNow(match.month, match.day) THEN today.year + 1 ELSE today.year
        withRest(match) ==
            (IF match.day >= 1 /\ match.day <= 31
             THEN <<formatDate(year(match), match.month, match.day)>> ELSE <<>>)
            \o monthNameDatesFrom(s, match.end + 1)
        firstOf(starts) == IF starts = {} THEN <<>> ELSE withRest(monthNameAt(s, minOf(starts)))
    IN  firstOf({i \in from..Len(s) : monthNameAt(s, i).end > 0})

extractMonthNameDates(userInput) == monthNameDatesFrom(toLowerCase(userInput), 1)

(***************************************************************************)
(* returnDatePatterns: a return keyword, an optional "date"/"on", colons   *)
(* and blanks, then \d{1,2}[-\/]\d{1,2}(?:[-\/]\d{2,4})?.  The operators   *)
(* work on the lower-cased input (the patterns are case-insensitive).      *)
(***************************************************************************)
NoCapture == [start |-> 0, end |-> 0]

\* \s*(?:k1|k2)?[:\s]+(date) or, with needSep false, \s*(?:k)?[:\s]*(date), from q1 on:
\* the capture, with the optional keyword tried before its omission
gapDateAt(s, q1, needSep, keywords) ==
    LET capture(a, r, e) ==
            IF (r >= a \/ ~needSep) /\ e > 0 THEN [start |-> r + 1, end |-> e] ELSE NoCapture
        separated(a, r) == capture(a, r, numericDateAt(s, r + 1, {"-", "/"}, "optional"))
        dateFrom(a) == separated(a, spanEnd(s, a, SpaceSet \cup {":"}))
        firstOf(q2, withKeyword) ==
            IF withKeyword # {}
            THEN dateFrom(q2 + Len(keywords[CHOOSE j \in withKeyword : TRUE]))
            ELSE dateFrom(q1)
        keyword(q2) == firstOf(q2, {k \in 1..Len(keywords) :
                                      /\ startsWithAt(s, keywords[k], q2)
                                      /\ dateFrom(q2 + Len(keywords[k])).end > 0})
    IN  keyword(spanEnd(s, q1, SpaceSet) + 1)

\* the index after the keyword of pattern n at i, 0 when the keyword is not there:
\* return(?:ing)?, come\s*back, returning
returnKeywordAt(n, s, i) ==
    CASE n = 1 -> IF ~startsWithAt(s, "return", i) THEN 0
                  ELSE IF startsWithAt(s, "ing", i + 6) THEN i + 9 ELSE i + 6
      [] n = 2 -> LET back(b) == IF startsWithAt(s, "back", b) THEN b + 4 ELSE 0
                  IN  IF ~startsWithAt(s, "come", i) THEN 0
                      ELSE back(spanEnd(s, i + 4, SpaceSet) + 1)
      [] n = 3 -> IF startsWithAt(s, "returning", i) THEN i + 9 ELSE 0

returnPatternAt(n, s, i) ==
    LET capture(q1) ==
            IF q1 = 0 THEN NoCapture
            ELSE gapDateAt(s, q1, n = 1, IF n = 1 THEN <<"date", "on">> ELSE <<"on">>)
    IN  capture(returnKeywordAt(n, s, i))

\* match[1] of the first of the patterns n, n + 1, ... that matches, "" when none does
RECURSIVE returnDateMatch(_, _)
returnDateMatch(s, n) ==
    LET text(c) == SubSeq(s, c.start, c.end)
        firstOf(starts) ==
            IF starts = {} THEN returnDateMatch(s, n + 1)
            ELSE text(returnPatternAt(n, s, minOf(starts)))
    IN  IF n > 3 THEN ""
        ELSE firstOf({i \in 1..Len(s) : returnPatternAt(n, s, i).end > 0})

(***************************************************************************)
(* FlightPlanner.extractCityAirports                                       *)
(***************************************************************************)
cityAirportMap == <<
    <<"mumbai", "BOM">>, <<"delhi", "DEL">>, <<"new delhi", "DEL">>, <<"bangalore", "BLR">>,
    <<"bengaluru", "BLR">>, <<"kolkata", "CCU">>, <<"chennai", "MAA">>, <<"hyderabad", "HYD">>,
    <<"ahmedabad", "AMD">>, <<"pune", "PNQ">>, <<"goa", "GOI">>, <<"jaipur", "JAI">>,
    <<"lucknow", "LKO">>, <<"kochi", "COK">>, <<"cochin", "COK">>,
    <<"thiruvananthapuram", "TRV">>, <<"trivandrum", "TRV">>, <<"chandigarh", "IXC">>,
    <<"coimbatore", "CJB">>, <<"vadodara", "BDQ">>, <<"baroda", "BDQ">>, <<"indore", "IDR">>,
    <<"nagpur", "NAG">>, <<"surat", "STV">>, <<"visakhapatnam", "VTZ">>,
    <<"bhubaneswar", "BBI">>, <<"patna", "PAT">>, <<"ranchi", "IXR">>, <<"udaipur", "UDR">>,
    <<"amritsar", "ATQ">>, <<"srinagar", "SXR">>, <<"guwahati", "GAU">>, <<"imphal", "IMF">>,
    <<"agartala", "IXA">>, <<"varanasi", "VNS">>,
    <<"beijing", "PEK">>, <<"shanghai", "PVG">>, <<"guangzhou", "CAN">>, <<"shenzhen", "SZX">>,
    <<"chengdu", "CTU">>, <<"hangzhou", "HGH">>, <<"xi'an", "XIY">>, <<"xian", "XIY">>,
    <<"london", "LHR">>, <<"paris", "CDG">>, <<"frankfurt", "FRA">>, <<"amsterdam", "AMS">>,
    <<"madrid", "MAD">>, <<"rome", "FCO">>, <<"barcelona", "BCN">>, <<"berlin", "BER">>,
    <<"istanbul", "IST">>, <<"moscow", "SVO">>, <<"dublin", "DUB">>, <<"vienna", "VIE">>,
    <<"zurich", "ZRH">>, <<"geneva", "GVA">>, <<"brussels", "BRU">>, <<"copenhagen", "CPH">>,
    <<"new york", "JFK">>, <<"los angeles", "LAX">>, <<"chicago", "ORD">>, <<"miami", "MIA">>,
    <<"austin", "AUS">>, <<"dallas", "DFW">>, <<"houston", "IAH">>, <<"atlanta", "ATL">>,
    <<"san francisco", "SFO">>, <<"seattle", "SEA">>, <<"boston", "BOS">>,
    <<"washington", "IAD">>, <<"las vegas", "LAS">>, <<"orlando", "MCO">>,
    <<"phoenix", "PHX">>, <<"denver", "DEN">>,
    <<"toronto", "YYZ">>, <<"vancouver", "YVR">>, <<"montreal", "YUL">>, <<"calgary", "YYC">>,
    <<"sydney", "SYD">>, <<"melbourne", "MEL">>, <<"brisbane", "BNE">>, <<"perth", "PER">>,
    <<"tokyo", "NRT">>, <<"seoul", "ICN">>, <<"singapore", "SIN">>, <<"hong kong", "HKG">>,
    <<"dubai", "DXB">>, <<"bangkok", "BKK">>, <<"kuala lumpur", "KUL">>, <<"jakarta", "CGK">>,
    <<"manila", "MNL">>, <<"taipei", "TPE">>, <<"ho chi minh", "SGN">>, <<"saigon", "SGN">>,
    <<"hanoi", "HAN">>, <<"kathmandu", "KTM">>, <<"dhaka", "DAC">>, <<"colombo", "CMB">>,
    <<"karachi", "KHI">>, <<"lahore", "LHE">>, <<"islamabad", "ISB">>>>

NoRoute == [found |-> FALSE, fromCity |-> "", toCity |-> ""]

\* fromToPattern /from\s+([a-z\s]+?)\s+to\s+([a-z\s]+?)(?:\s+on|\s+in|\s+at|$)/ at i, in
\* the order the matcher tries: the longest \s+, the shortest lazy group
fromToPatternAt(s, i) ==
    LET cityChars == LowerSet \cup SpaceSet
        \* (?:\s+on|\s+in|\s+at|$) after the character at d
        endsAt(d) ==
            \/ d = Len(s)
            \/ LET e == spanEnd(s, d + 1, SpaceSet)
               IN  e >= d + 1 /\ \E w \in {"on", "in", "at"} : startsWithAt(s, w, e + 1)
        \* the ends of the second group when it starts at c
        ends2(c) == {d \in c..spanEnd(s, c, cityChars) : endsAt(d)}
        \* the starts of the second group after "to" at t
        starts2(t) == {c \in (t + 3)..(spanEnd(s, t + 2, SpaceSet) + 1) : ends2(c) # {}}
        \* \s+to after the character at b
        toAfter(b) == spanEnd(s, b + 1, SpaceSet) + 1
        toAt(b, t) == t > b + 1 /\ startsWithAt(s, "to", t) /\ starts2(t) # {}
        ends1(a) == {b \in a..spanEnd(s, a, cityChars) : toAt(b, toAfter(b))}
        groups(a, b, c) == [found |-> TRUE, fromCity |-> trim(SubSeq(s, a, b)),
                            toCity |-> trim(SubSeq(s, c, minOf(ends2(c))))]
        second(a, b) == groups(a, b, maxOf(starts2(toAfter(b))))
        first(a) == second(a, minOf(ends1(a)))
        firstOf(starts1) == IF starts1 = {} THEN NoRoute ELSE first(maxOf(starts1))
    IN  IF ~startsWithAt(s, "from", i) THEN NoRoute
        ELSE firstOf({a \in (i + 5)..(spanEnd(s, i + 4, SpaceSet) + 1) : ends1(a) # {}})

\* the code of the last city of the map that contains the name or is contained in it
lastCityCode(name) ==
    LET lastOf(hits) == IF hits = {} THEN "" ELSE cityAirportMap[maxOf(hits)][2]
    IN  lastOf({n \in 1..Len(cityAirportMap) :
                  includes(name, cityAirportMap[n][1]) \/ includes(cityAirportMap[n][1], name)})

\* the result as [departure, arrival]; "" stands for a field that is not set
extractCityAirports(userInput) ==
    LET firstTwo(foundCities) ==
            IF Cardinality(foundCities) >= 2
            THEN [departure |-> cityAirportMap[minOf(foundCities)][2],
                  arrival |-> cityAirportMap[minOf(foundCities \ {minOf(foundCities)})][2]]
            ELSE [departure |-> "", arrival |-> ""]
        codes(lowerInput, found, departureCode, arrivalCode) ==
            IF found /\ departureCode # "" /\ arrivalCode # ""
            THEN [departure |-> departureCode, arrival |-> arrivalCode]
            ELSE firstTwo({n \in 1..Len(cityAirportMap) :
                             includes(lowerInput, cityAirportMap[n][1])})
        cities(lowerInput, match) ==
            codes(lowerInput, match.found, lastCityCode(match.fromCity),
                  lastCityCode(match.toCity))
        firstOf(lowerInput, starts) ==
            cities(lowerInput, IF starts = {} THEN NoRoute
                               ELSE fromToPatternAt(lowerInput, minOf(starts)))
        scan(lowerInput) ==
            firstOf(lowerInput,
                    {i \in 1..Len(lowerInput) : fromToPatternAt(lowerInput, i).found})
    IN  scan(toLowerCase(userInput))

(***************************************************************************)
(* FlightPlanner.extractFlightParams.  A Partial<FlightSearchParams> is a  *)
(* function from the fields that are set to their values; null is a value  *)
(* of its own.                                                             *)
(***************************************************************************)
null == [isNull |-> TRUE]

ParamFields == {"departureId", "arrivalId", "outboundDate", "returnDate", "currency", "hl"}

emptyParams == [f \in {} |-> ""]

\* the object with exactly the fields whose value is not ""
paramsOf(values) == [f \in {g \in ParamFields : values[g] # ""} |-> values[f]]

\* params.f, "" when the field is not set (undefined and "" are both falsy)
field(params, f) == IF params # null /\ f \in DOMAIN params THEN params[f] ELSE ""

naturalDates == <<[patterns |-> <<"tomorrow">>, offset |-> 1],
                  [patterns |-> <<"day after tomorrow", "day after">>, offset |-> 2],
                  [patterns |-> <<"next week">>, offset |-> 7],
                  [patterns |-> <<"next month">>, offset |-> 30]>>

\* userInput.match(/\b(c1|c2|...)\b/i): the text of the leftmost match, "" when none
firstWordOf(lowerInput, words) ==
    LET at(i) == CHOOSE w \in words : wordAt(lowerInput, w, i)
        firstOf(hits) == IF hits = {} THEN "" ELSE at(minOf(hits))
    IN  firstOf({i \in 1..Len(lowerInput) : \E w \in words : wordAt(lowerInput, w, i)})

\* FlightPlanner.extractFlightParams up to its last test: the params object it has built
extractedFields(userInput) ==
    LET collect(lowerInput, returnDate, dates, airports, cityAirports) ==
            [departureId |-> IF Len(airports) >= 2 THEN airports[1]
                             ELSE IF cityAirports.departure # "" /\ cityAirports.arrival # ""
                             THEN cityAirports.departure ELSE "",
             arrivalId |-> IF Len(airports) >= 2 THEN airports[2]
                           ELSE IF cityAirports.departure # "" /\ cityAirports.arrival # ""
                           THEN cityAirports.arrival ELSE "",
             outboundDate |-> IF Len(dates) > 0 THEN normalizeDate(dates[1]) ELSE "",
             returnDate |-> IF returnDate # "" THEN normalizeDate(returnDate)
                            ELSE IF Len(dates) > 1 THEN normalizeDate(dates[2]) ELSE "",
             currency |-> toUpperCase(firstWordOf(lowerInput,
                              {"usd", "eur", "gbp", "cad", "aud", "jpy", "chf"})),
             hl |-> firstWordOf(lowerInput,
                        {"en", "es", "fr", "de", "it", "pt", "ru", "zh", "ja", "ko"})]
        dates(natural, monthNameDates) ==
            IF natural # {} THEN <<futureDate(naturalDates[minOf(natural)].offset)>>
            ELSE IF Len(monthNameDates) > 0 THEN monthNameDates
            ELSE matchTexts("iso", userInput, 1) \o matchTexts("slash", userInput, 1)
                 \o matchTexts("dash", userInput, 1) \o matchTexts("short", userInput, 1)
        scan(lowerInput) ==
            collect(lowerInput, returnDateMatch(lowerInput, 1),
                    dates({n \in 1..Len(naturalDates) :
                             includesAny(lowerInput, naturalDates[n].patterns)},
                          extractMonthNameDates(userInput)),
                    matchTexts("airport", userInput, 1), extractCityAirports(userInput))
    IN  scan(toLowerCase(userInput))

\* a faulty variant: the params object is returned as far as it was filled
extractFlightParamsPartial(userInput) == paramsOf(extractedFields(userInput))

\* the params object when it has both airports and the outbound date, else null
extractFlightParams(userInput) ==
    LET result(params) ==
            IF params.departureId # "" /\ params.arrivalId # "" /\ params.outboundDate # ""
            THEN paramsOf(params)
            ELSE null
    IN  result(extractedFields(userInput))

(***************************************************************************)
(* Facts of one text, computed once per text of the model: the operators   *)
(* below give, for a text of KnownTexts, the tabulated value of the        *)
(* expression on their right, and compute the expression for other texts.  *)
(***************************************************************************)
flightContextKeywords == <<"flight", "fly", "airport", "departure", "arrival", "destination",
    "return date", "one-way", "round-trip", "booking", "travel date",
    "when would you like", "where are you flying", "provide a date",
    "need to know", "departure date", "which date", "searching for",
    "found flights", "flight options", "book a flight", "flight details">>

personalContextKeywords == <<"hello", "hi", "hey", "how are you", "what's up",
    "my name", "i am", "i'm", "tell me about", "who are you",
    "help", "assist", "support", "thank", "thanks">>

flightInfoWords == <<"departure", "arrival", "date", "when", "where", "destination", "return",
    "flight">>

personalInfoWords == <<"your name", "tell me about yourself", "how can i help", "personal">>

stateWords == <<"from", "to", "departure", "arrival", "my name is", "i am", "i'm", "i live in",
    "i'm from", "i work as", "my job">>

Range(seq) == {seq[i] : i \in 1..Len(seq)}

TabulatedKeywords ==
    Range(flightContextKeywords) \cup Range(personalContextKeywords) \cup Range(flightInfoWords)
    \cup Range(personalInfoWords) \cup Range(stateWords)

\* /\d{1,2}[-\/]\d{1,2}/.test(m) || /\b(jan|...|dec)\b/i.test(m)
hasDateToken(message) ==
    \/ hasShortDate(message)
    \/ hasAnyWord(toLowerCase(message), <<"jan", "feb", "mar", "apr", "may", "jun", "jul", "aug",
                                          "sep", "oct", "nov", "dec">>)

\* the one flight the search service of the model finds
foundFlights == <<[airline |-> "IndiGo", price |-> 120, duration |-> 95, stops |-> 0]>>

\* FlightAgentService.formatFlightResults
RECURSIVE formatFlightResults(_, _)
formatFlightResults(flights, n) ==
    IF n = 0 THEN ""
    ELSE LET flight == flights[n]
             price == IF flight.price # 0 THEN "$" \o toString(flight.price) ELSE "Price N/A"
             duration == IF flight.duration # 0 THEN toString(flight.duration) \o " min"
                         ELSE "Duration N/A"
             stops == IF flight.stops = 0 THEN "Nonstop"
                      ELSE toString(flight.stops) \o " stop(s)"
         IN  (IF n = 1 THEN "" ELSE formatFlightResults(flights, n - 1) \o "\n")
             \o "Flight " \o toString(n) \o ": " \o flight.airline \o " - " \o price \o ", "
             \o duration \o ", " \o stops

flightSummary == formatFlightResults(foundFlights, Min(Len(foundFlights), 5))

\* a message that holds "to" inside a word only, and a reply that asks when
msgStory == "Tell me a story"

genWhen == "When were you born?"

KnownTexts ==
    UserMessages \cup GeneratedTexts \cup {msgStory, genWhen}
    \cup {multiRouteReply, flightHelpDefault, flightHelpFallback, searchErrorDefault,
          searchErrorFallback, personalDefault, flightSummary}

textFacts ==
    [t \in KnownTexts |->
        [lower |-> toLowerCase(t),
         keywords |-> {k \in TabulatedKeywords : includes(toLowerCase(t), k)},
         dateToken |-> hasDateToken(t)]]

lowerOf(t) == IF t \in KnownTexts THEN textFacts[t].lower ELSE toLowerCase(t)

\* t.toLowerCase().includes(k)
lowerIncludes(t, k) ==
    IF t \in KnownTexts /\ k \in TabulatedKeywords THEN k \in textFacts[t].keywords
    ELSE includes(lowerOf(t), k)

dateTokenIn(t) == IF t \in KnownTexts THEN textFacts[t].dateToken ELSE hasDateToken(t)

\* the facts of a user message that depend on the message alone
messageFacts ==
    [m \in UserMessages |->
        [flightScore |-> calculateFlightConfidence(m),
         personalScore |-> calculatePersonalConfidence(m),
         multipleRoutes |-> hasMultipleFlightRoutes(m),
         params |-> extractFlightParams(m)]]

(***************************************************************************)
(* The recent turns and their joined text.                                 *)
(***************************************************************************)
\* Array.prototype.slice(-n)
lastN(seq, n) == SubSeq(seq, Max(1, Len(seq) - n + 1), Len(seq))

\* messages.map(m => m.message.toLowerCase()).join(' ')
RECURSIVE joinLower(_, _)
joinLower(messages, n) ==
    IF n = 0 THEN ""
    ELSE IF n = 1 THEN lowerOf(messages[1].message)
    ELSE joinLower(messages, n - 1) \o " " \o lowerOf(messages[n].message)

\* messages.map(m => m.message).join(' ')
RECURSIVE joinMessages(_, _)
joinMessages(messages, n) ==
    IF n = 0 THEN ""
    ELSE IF n = 1 THEN messages[1].message
    ELSE joinMessages(messages, n - 1) \o " " \o messages[n].message

\* recentText.includes(keyword) for recentText = joinLower(messages): an occurrence of the
\* keyword lies inside one message, or it covers a joining blank, and then a blank of the
\* keyword is on that joining blank
recentTextIncludes(messages, keyword) ==
    \/ \E n \in 1..Len(messages) : lowerIncludes(messages[n].message, keyword)
    \/ /\ includes(keyword, " ")
       /\ LET recentText == joinLower(messages, Len(messages))
              blanks == {Len(joinLower(messages, n)) + 1 : n \in 1..(Len(messages) - 1)}
          IN  \E b \in blanks : \E k \in 1..Len(keyword) :
                  charAt(keyword, k) = " " /\ startsWithAt(recentText, keyword, b - k + 1)

(***************************************************************************)
(* AgentRouterService.isOngoingFlightConversation and                      *)
(* AgentRouterService.isOngoingPersonalConversation                        *)
(***************************************************************************)
\* a faulty variant: of each role only the most recent turn is looked at
isOngoingFlightConversationLastTurns(conversationHistory) ==
    LET recentMessages == lastN(conversationHistory, 6)
        lastOf(role) ==
            {n \in 1..Len(recentMessages) :
                /\ recentMessages[n].role = role
                /\ \A m \in (n + 1)..Len(recentMessages) : recentMessages[m].role # role}
        hasFlightKeywords ==
            \E k \in 1..Len(flightContextKeywords) :
                recentTextIncludes(recentMessages, flightContextKeywords[k])
        aiAskedForFlightInfo ==
            \E n \in lastOf("assistant") :
                \E k \in 1..Len(flightInfoWords) :
                    lowerIncludes(recentMessages[n].message, flightInfoWords[k])
        userProvidedFlightInfo ==
            \E n \in lastOf("user") :
                \/ lowerIncludes(recentMessages[n].message, "from")
                \/ lowerIncludes(recentMessages[n].message, "to")
                \/ dateTokenIn(recentMessages[n].message)
    IN  IF Len(conversationHistory) < 2 THEN FALSE
        ELSE hasFlightKeywords \/ aiAskedForFlightInfo \/ userProvidedFlightInfo

\* a faulty variant: the four most recent entries are looked at
isOngoingFlightConversationFourTurns(conversationHistory) ==
    LET recentMessages == lastN(conversationHistory, 4)
        hasFlightKeywords ==
            \E k \in 1..Len(flightContextKeywords) :
                recentTextIncludes(recentMessages, flightContextKeywords[k])
        aiAskedForFlightInfo ==
            \E n \in 1..Len(recentMessages) :
                /\ recentMessages[n].role = "assistant"
                /\ \E k \in 1..Len(flightInfoWords) :
                      lowerIncludes(recentMessages[n].message, flightInfoWords[k])
        userProvidedFlightInfo ==
            \E n \in 1..Len(recentMessages) :
                /\ recentMessages[n].role = "user"
                /\ \/ lowerIncludes(recentMessages[n].message, "from")
                   \/ lowerIncludes(recentMessages[n].message, "to")
                   \/ dateTokenIn(recentMessages[n].message)
    IN  IF Len(conversationHistory) < 2 THEN FALSE
        ELSE hasFlightKeywords \/ aiAskedForFlightInfo \/ userProvidedFlightInfo

isOngoingFlightConversation(conversationHistory) ==
    LET recentMessages == lastN(conversationHistory, 6)
        hasFlightKeywords ==
            \E k \in 1..Len(flightContextKeywords) :
                recentTextIncludes(recentMessages, flightContextKeywords[k])
        aiAskedForFlightInfo ==
            \E n \in 1..Len(recentMessages) :
                /\ recentMessages[n].role = "assistant"
                /\ \E k \in 1..Len(flightInfoWords) :
                      lowerIncludes(recentMessages[n].message, flightInfoWords[k])
        userProvidedFlightInfo ==
            \E n \in 1..Len(recentMessages) :
                /\ recentMessages[n].role = "user"
                /\ \/ lowerIncludes(recentMessages[n].message, "from")
                   \/ lowerIncludes(recentMessages[n].message, "to")
                   \/ dateTokenIn(recentMessages[n].message)
    IN  IF Len(conversationHistory) < 2 THEN FALSE
        ELSE hasFlightKeywords \/ aiAskedForFlightInfo \/ userProvidedFlightInfo

isOngoingPersonalConversation(conversationHistory) ==
    LET recentMessages == lastN(conversationHistory, 4)
        hasPersonalKeywords ==
            \E k \in 1..Len(personalContextKeywords) :
                recentTextIncludes(recentMessages, personalContextKeywords[k])
        aiAskedPersonalInfo ==
            \E n \in 1..Len(recentMessages) :
                /\ recentMessages[n].role = "assistant"
                /\ \E k \in 1..Len(personalInfoWords) :
                      lowerIncludes(recentMessages[n].message, personalInfoWords[k])
    IN  IF Len(conversationHistory) < 2 THEN FALSE
        ELSE hasPersonalKeywords \/ aiAskedPersonalInfo

(***************************************************************************)
(* FlightAgentService.mergeFlightParams and hasCompleteParams              *)
(***************************************************************************)
\* a faulty variant: a key that is already present keeps its value
spreadKept(a, b) == [f \in DOMAIN a \cup DOMAIN b |-> IF f \in DOMAIN a THEN a[f] ELSE b[f]]

\* a faulty variant: nothing of b is copied
spreadNothing(a, b) == a

\* { ...a, ...b }
spread(a, b) == [f \in DOMAIN a \cup DOMAIN b |-> IF f \in DOMAIN b THEN b[f] ELSE a[f]]

\* a faulty variant: the parameters of the turn replace the context as a whole
mergeFlightParamsWholesale(currentParams, contextParams) ==
    IF currentParams # null THEN currentParams
    ELSE IF DOMAIN contextParams = {} THEN null
    ELSE contextParams

mergeFlightParams(currentParams, contextParams) ==
    LET merged == [f \in ParamFields |->
                      IF field(currentParams, f) # "" THEN field(currentParams, f)
                      ELSE field(contextParams, f)]
    IN  IF currentParams = null /\ DOMAIN contextParams = {} THEN null
        ELSE IF merged.departureId = "" /\ merged.arrivalId = "" /\ merged.outboundDate = ""
        THEN null
        ELSE paramsOf(merged)

hasCompleteParams(params) ==
    field(params, "departureId") # "" /\ field(params, "arrivalId") # ""
    /\ field(params, "outboundDate") # ""

\* the missingInfo list of processFlightQuery
missingInfoOf(extractedParams) ==
    (IF field(extractedParams, "departureId") = "" THEN <<"departure city/airport">> ELSE <<>>)
    \o (IF field(extractedParams, "arrivalId") = "" THEN <<"arrival city/airport">> ELSE <<>>)
    \o (IF field(extractedParams, "outboundDate") = "" THEN <<"departure date">> ELSE <<>>)

\* missingInfo.join(' and ')
RECURSIVE joinAnd(_, _)
joinAnd(list, n) ==
    IF n = 0 THEN "" ELSE IF n = 1 THEN list[1] ELSE joinAnd(list, n - 1) \o " and " \o list[n]

\* the reply of processFlightQuery when the search finds no flight
noFlightsMessage(extractedParams) ==
    "I searched for flights from " \o extractedParams.departureId \o " to "
    \o extractedParams.arrivalId \o " on " \o extractedParams.outboundDate
    \o (IF field(extractedParams, "returnDate") # ""
        THEN " returning " \o extractedParams.returnDate ELSE "")
    \o ", but no flights were available. You may want to try different dates or nearby airports."

(***************************************************************************)
(* AgentRouterService: the routing rule of chat and the conversation state *)
(***************************************************************************)
\* Math.max(score, 0.7) under the flight flag, Math.max(score, 0.6) under the personal flag
\* faulty variants: a floor below the personal floor, and a floor that overwrites the score
boostFlightToHalf(flightScore, isInFlightConversation) ==
    IF isInFlightConversation THEN MathMax(flightScore, Dec(5, 1)) ELSE flightScore

boostFlightOverwrite(flightScore, isInFlightConversation) ==
    IF isInFlightConversation THEN Dec(7, 1) ELSE flightScore

boostFlight(flightScore, isInFlightConversation) ==
    IF isInFlightConversation THEN MathMax(flightScore, Dec(7, 1)) ELSE flightScore

boostPersonal(personalScore, isInPersonalConversation) ==
    IF isInPersonalConversation THEN MathMax(personalScore, Dec(6, 1)) ELSE personalScore

\* a faulty variant: the threshold alone decides
routesToFlightByThreshold(flightScore, flightThreshold, personalScore) ==
    ~less(flightScore, flightThreshold)

\* the condition of the if statement that selects the handler
routesToFlight(flightScore, flightThreshold, personalScore) ==
    ~less(flightScore, flightThreshold) /\ less(personalScore, flightScore)

initialConversationState ==
    [currentIntent |-> "unknown",
     flightContext |-> [hasDeparture |-> FALSE, hasArrival |-> FALSE, hasDate |-> FALSE,
                        hasReturnDate |-> FALSE, lastAskedFor |-> <<>>],
     personalContext |-> [hasName |-> FALSE, hasLocation |-> FALSE, hasOccupation |-> FALSE]]

updateConversationState(state, message, agentType) ==
    IF agentType = "flight"
    THEN [state EXCEPT
            !.currentIntent = "flight",
            !.flightContext.hasDeparture =
                @ \/ lowerIncludes(message, "from") \/ lowerIncludes(message, "departure"),
            !.flightContext.hasArrival =
                @ \/ lowerIncludes(message, "to") \/ lowerIncludes(message, "arrival"),
            !.flightContext.hasDate = @ \/ dateTokenIn(message)]
    ELSE [state EXCEPT
            !.currentIntent = "personal",
            !.personalContext.hasName =
                @ \/ lowerIncludes(message, "my name is") \/ lowerIncludes(message, "i am")
                  \/ lowerIncludes(message, "i'm"),
            !.personalContext.hasLocation =
                @ \/ lowerIncludes(message, "i live in") \/ lowerIncludes(message, "i'm from"),
            !.personalContext.hasOccupation =
                @ \/ lowerIncludes(message, "i work as") \/ lowerIncludes(message, "my job")]

(***************************************************************************)
(* The system: one router per session, the persisted session contexts,     *)
(* and the requests that are being served.                                 *)
(***************************************************************************)
Sessions == {"s1", "s2"}

Procs == {"p1", "p2"}

\* the greatest number of chats of one session
MaxChats == 2

undefined == [isUndefined |-> TRUE]

emptyMap == [k \in {} |-> ""]

\* what a generative call yields: a text, an empty text, or an exception
AiOutcomes == [kind : {"text"}, text : GeneratedTexts] \cup {[kind |-> "empty", text |-> ""],
                                                            [kind |-> "throw", text |-> ""]}

\* the personalInfo objects the context extraction yields; "" is a null field
PersonalInfos == {emptyMap, [name |-> "Sam", age |-> ""]}

\* the outcomes of FlightPlanner.searchFlights
SearchOutcomes == {"error", "empty", "flights"}

\* the users that hold a token; "" is a request without an authenticated user
Users == {"u1", "u2"}

\* no ChatSession document under a session id
NoSession == [exists |-> FALSE, userId |-> "", title |-> ""]

\* the ChatSession documents when every session is there and belongs to one user
ownedSessions == [s \in Sessions |-> [exists |-> TRUE, userId |-> "u1", title |-> "New Chat"]]

\* req.body and req.user of no request
NoRequest == [prompt |-> [type |-> "undefined", value |-> ""], userId |-> "", sessionId |-> "",
              isNewChat |-> FALSE]

\* the local variables of generateResponse (request, isNewSession, status: the HTTP status
\* it has answered with, 0 before the answer) and those of the chat call it makes
NoCall ==
    [request |-> NoRequest, isNewSession |-> FALSE, status |-> 0,
     session |-> "", message |-> "", existingContext |-> undefined,
     flightScore |-> <<>>, personalScore |-> <<>>,
     isInFlightConversation |-> FALSE, isInPersonalConversation |-> FALSE,
     flightThreshold |-> <<>>, handler |-> "", invoked |-> <<>>,
     currentParams |-> null, extractedParams |-> null, missingInfo |-> <<>>,
     normalized |-> <<>>,
     contextUpdates |-> undefined,
     aiMessage |-> "", extractions |-> 0, searches |-> 0, generations |-> 0,
     failures |-> 0]

NoResponse == [isUndefined |-> TRUE]

VARIABLES
    conversationHistory,   \* per session: AgentRouterService.conversationHistory
    conversationState,     \* per session: AgentRouterService.conversationState
    conversationContext,   \* per session: FlightAgentService.conversationContext
    userContext,           \* per session: PersonalAgentService.userContext
    sessionContexts,       \* per session: the SessionContext document, if any
    chats,                 \* per session: the chat calls made so far
    turns,                 \* per session: the chat calls completed since the last reset
    chatSessions,          \* per session id: the ChatSession document, if any
    messages,              \* per session id: the Message documents of the session, oldest first
    pc,                    \* per request: where the request stands
    call,                  \* per request: the local variables of its chat call
    response               \* per request: the ChatResponse its chat call returned

vars == <<conversationHistory, conversationState, conversationContext, userContext,
          sessionContexts, chats, turns, chatSessions, messages, pc, call, response>>

Init ==
    /\ conversationHistory = [s \in Sessions |-> <<>>]
    /\ conversationState = [s \in Sessions |-> initialConversationState]
    /\ conversationContext = [s \in Sessions |-> emptyParams]
    /\ userContext = [s \in Sessions |-> emptyMap]
    /\ sessionContexts = [s \in Sessions |-> [exists |-> FALSE, contextData |-> emptyMap]]
    /\ chats = [s \in Sessions |-> 0]
    /\ chatSessions = ownedSessions
    /\ messages = [s \in Sessions |-> <<>>]
    /\ turns = [s \in Sessions |-> 0]
    /\ pc = [p \in Procs |-> "idle"]
    /\ call = [p \in Procs |-> NoCall]
    /\ response = [p \in Procs |-> NoResponse]

(***************************************************************************)
(* The ChatResponse objects that handleFlightQuery and handlePersonalQuery *)
(* build.  requiresMoreInfo is "true", "false" or "undefined".             *)
(***************************************************************************)
flightResponse(c, result, context) ==
    [response |-> result.message, context |-> context, contextUpdates |-> undefined,
     flightData |-> result.flightData,
     metadata |-> [agent |-> "Flight Assistant", type |-> "flight",
                   confidence |-> c.flightScore,
                   allScores |-> [flight |-> c.flightScore, personal |-> c.personalScore],
                   tripType |-> result.tripType,
                   requiresMoreInfo |-> result.requiresMoreInfo,
                   searchParams |-> result.searchParams]]

personalResponse(c, result, context) ==
    [response |-> result.message, context |-> context,
     contextUpdates |-> result.contextUpdates, flightData |-> "undefined",
     metadata |-> [agent |-> "Personal Assistant", type |-> "personal",
                   confidence |-> c.personalScore,
                   allScores |-> [flight |-> c.flightScore, personal |-> c.personalScore],
                   tripType |-> "undefined",
                   requiresMoreInfo |-> "undefined",
                   searchParams |-> undefined]]

\* the number of failed calls in one outcome of the generative text service
failuresOf(ai) == IF ai.kind = "throw" THEN 1 ELSE 0

\* a faulty variant: an empty completion is returned as it is
generatedUnchecked(ai, fallback, caught) == IF ai.kind = "throw" THEN caught ELSE ai.text

\* the text of a generative call: response.text || fallback, and the text of the catch block
generated(ai, fallback, caught) ==
    IF ai.kind = "throw" THEN caught ELSE IF ai.text # "" THEN ai.text ELSE fallback

tripTypeOf(extractedParams) ==
    IF field(extractedParams, "returnDate") # "" THEN "round-trip" ELSE "one-way"

\* a faulty variant: one history shared by the routers of all sessions is emptied
clearSharedHistory(s) ==
    /\ conversationHistory' = [t \in Sessions |-> <<>>]
    /\ userContext' = [userContext EXCEPT ![s] = emptyMap]
    /\ conversationContext' = [conversationContext EXCEPT ![s] = emptyParams]
    /\ conversationState' = [conversationState EXCEPT ![s] = initialConversationState]
    /\ turns' = [turns EXCEPT ![s] = 0]

\* a faulty variant: the assistants keep what they have gathered
clearHistoryOnly(s) ==
    /\ conversationHistory' = [conversationHistory EXCEPT ![s] = <<>>]
    /\ conversationState' = [conversationState EXCEPT ![s] = initialConversationState]
    /\ turns' = [turns EXCEPT ![s] = 0]
    /\ UNCHANGED <<userContext, conversationContext>>

\* AgentRouterService.clearHistory on the router of session s
clearHistory(s) ==
    /\ conversationHistory' = [conversationHistory EXCEPT ![s] = <<>>]
    /\ userContext' = [userContext EXCEPT ![s] = emptyMap]
    /\ conversationContext' = [conversationContext EXCEPT ![s] = emptyParams]
    /\ conversationState' = [conversationState EXCEPT ![s] = initialConversationState]
    /\ turns' = [turns EXCEPT ![s] = 0]

(***************************************************************************)
(* ChatController.generateResponse from the checks it has passed to the    *)
(* call of chat: with isNewChat the session gets a new router and          *)
(* clearHistory; then chat(prompt) starts and waits for the session        *)
(* context.                                                                *)
(***************************************************************************)
callChat(p, s, request, isNewSession) ==
    /\ IF request.isNewChat THEN clearHistory(s)
       ELSE UNCHANGED <<conversationHistory, userContext, conversationContext,
                        conversationState, turns>>
    /\ chats' = [chats EXCEPT ![s] = @ + 1]
    /\ call' = [call EXCEPT ![p] = [NoCall EXCEPT !.request = request,
                                                  !.isNewSession = isNewSession,
                                                  !.session = s,
                                                  !.message = request.prompt.value]]
    /\ response' = [response EXCEPT ![p] = NoResponse]
    /\ pc' = [pc EXCEPT ![p] = "loadSessionContext"]
    /\ UNCHANGED sessionContexts

\* a request of the owner of the existing session s that passes the checks
StartChat(p, s, message, isNewChat) ==
    /\ pc[p] = "idle"
    /\ chats[s] < MaxChats
    /\ callChat(p, s, [prompt |-> [type |-> "string", value |-> message],
                       userId |-> chatSessions[s].userId, sessionId |-> s,
                       isNewChat |-> isNewChat], FALSE)
    /\ UNCHANGED <<chatSessions, messages>>

\* a faulty variant: the reply to several routes carries the parameters gathered so far
multiRouteResultWithParams ==
    [message |-> multiRouteReply, requiresMoreInfo |-> "true",
     searchParams |-> emptyParams, tripType |-> "undefined", flightData |-> "undefined"]

\* processFlightQuery: what it returns when the message holds several routes
multiRouteResult ==
    [message |-> multiRouteReply, requiresMoreInfo |-> "true",
     searchParams |-> undefined, tripType |-> "undefined", flightData |-> "undefined"]

\* a faulty variant: the reply is not recorded
finishFlightSilent(p, c, result, history) ==
    /\ conversationHistory' = [conversationHistory EXCEPT ![c.session] = history]
    /\ response' = [response EXCEPT ![p] = flightResponse(c, result, userContext[c.session])]
    /\ turns' = [turns EXCEPT ![c.session] = @ + 1]
    /\ call' = [call EXCEPT ![p] = c]
    /\ pc' = [pc EXCEPT ![p] = "idle"]

\* handleFlightQuery after processFlightQuery has returned result: the reply is appended
\* and the response is returned
finishFlight(p, c, result, history) ==
    LET s == c.session
    IN  /\ conversationHistory' =
              [conversationHistory EXCEPT
                  ![s] = Append(history, [role |-> "assistant", message |-> result.message])]
        /\ response' = [response EXCEPT ![p] = flightResponse(c, result, userContext[s])]
        /\ turns' = [turns EXCEPT ![s] = @ + 1]
        /\ call' = [call EXCEPT ![p] = c]
        /\ pc' = [pc EXCEPT ![p] = "idle"]

\* handlePersonalQuery after processMessage has returned result: the reply is appended,
\* and the response is returned unless context updates are to be saved first
finishPersonal(p, c, result, context) ==
    LET s == c.session
        saves == result.contextUpdates # undefined /\ DOMAIN result.contextUpdates # {}
    IN  /\ conversationHistory' =
              [conversationHistory EXCEPT
                  ![s] = Append(@, [role |-> "assistant", message |-> result.message])]
        /\ call' = [call EXCEPT ![p] = [c EXCEPT !.contextUpdates = result.contextUpdates,
                                                 !.aiMessage = result.message]]
        /\ IF saves
           THEN /\ pc' = [pc EXCEPT ![p] = "saveSessionContext"]
                /\ UNCHANGED <<response, turns>>
           ELSE /\ pc' = [pc EXCEPT ![p] = "idle"]
                /\ response' = [response EXCEPT ![p] = personalResponse(c, result, context)]
                /\ turns' = [turns EXCEPT ![s] = @ + 1]

(***************************************************************************)
(* AgentRouterService.chat from the answer of loadSessionContext to the    *)
(* first wait of the selected assistant: scoring, floors, threshold,       *)
(* selection, then handleFlightQuery or handlePersonalQuery up to the      *)
(* assistant's first asynchronous call.  dbOk is false when the lookup     *)
(* throws.                                                                 *)
(***************************************************************************)
LoadSessionContext(p, dbOk) ==
    LET s == call[p].session
        message == call[p].message
        history == Append(conversationHistory[s], [role |-> "user", message |-> message])
        \* processFlightQuery from the merge of the parameters to its first wait
        mergeParams(c, currentParams, extractedParams) ==
            /\ conversationHistory' = [conversationHistory EXCEPT ![s] = history]
            /\ conversationContext' =
                  [conversationContext EXCEPT
                      ![s] = IF currentParams # null THEN spread(@, currentParams) ELSE @]
            /\ call' = [call EXCEPT
                          ![p] = [c EXCEPT !.extractedParams = extractedParams,
                                           !.missingInfo = IF extractedParams = null THEN <<>>
                                                           ELSE missingInfoOf(extractedParams)]]
            /\ pc' = [pc EXCEPT
                        ![p] = IF extractedParams = null THEN "getAIFlightHelp"
                               ELSE IF Len(missingInfoOf(extractedParams)) > 0
                               THEN "getContextualClarification"
                               ELSE "searchFlights"]
            /\ UNCHANGED <<userContext, response, turns>>
        \* mergeFlightParams(currentParams || historyParams, this.conversationContext)
        merge(c, currentParams, turnParams) ==
            mergeParams([c EXCEPT !.currentParams = turnParams,
                                  !.extractions = IF currentParams # null THEN 1 ELSE 2],
                        currentParams,
                        mergeFlightParams(turnParams, conversationContext[s]))
        \* processFlightQuery up to the merge of the parameters; the history is searched
        \* when currentParams is null: a currentParams that is not null has the three
        \* fields hasCompleteParams asks for, since extractFlightParams returns no other
        processFlightQuery(c, facts) ==
            IF facts.multipleRoutes
            THEN /\ finishFlight(p, c, multiRouteResult, history)
                 /\ UNCHANGED <<conversationContext, userContext>>
            ELSE merge(c, facts.params,
                       IF facts.params # null THEN facts.params
                       ELSE extractFlightParams(joinMessages(history, Len(history))))
        \* processMessage up to its first wait: existingContext.forEach(... set(key, value))
        processMessage(c) ==
            /\ conversationHistory' = [conversationHistory EXCEPT ![s] = history]
            /\ userContext' =
                  [userContext EXCEPT
                      ![s] = IF c.existingContext # undefined
                             THEN spread(@, c.existingContext) ELSE @]
            /\ call' = [call EXCEPT ![p] = c]
            /\ pc' = [pc EXCEPT ![p] = "extractContext"]
            /\ UNCHANGED <<conversationContext, response, turns>>
        \* handleFlightQuery or handlePersonalQuery
        handle(c, facts, agentType) ==
            /\ conversationState' =
                  [conversationState EXCEPT
                      ![s] = updateConversationState(@, message, agentType)]
            /\ IF agentType = "flight"
               THEN processFlightQuery([c EXCEPT !.handler = agentType,
                                                 !.invoked = Append(@, agentType)], facts)
               ELSE processMessage([c EXCEPT !.handler = agentType,
                                             !.invoked = Append(@, agentType)])
        select(c, facts, flightThreshold) ==
            handle([c EXCEPT !.flightThreshold = flightThreshold], facts,
                   IF routesToFlight(c.flightScore, flightThreshold, c.personalScore)
                   THEN "flight" ELSE "personal")
        score(c, facts, flightScore, personalScore) ==
            select([c EXCEPT !.flightScore = flightScore, !.personalScore = personalScore],
                   facts, getDynamicThreshold(flightScore, personalScore))
        chat(c, facts, isInFlightConversation, isInPersonalConversation) ==
            score([c EXCEPT !.isInFlightConversation = isInFlightConversation,
                            !.isInPersonalConversation = isInPersonalConversation],
                  facts,
                  boostFlight(facts.flightScore, isInFlightConversation),
                  boostPersonal(facts.personalScore, isInPersonalConversation))
    IN  /\ pc[p] = "loadSessionContext"
        /\ chat([call[p] EXCEPT !.existingContext =
                                    IF dbOk /\ sessionContexts[s].exists
                                    THEN sessionContexts[s].contextData ELSE undefined],
                messageFacts[message],
                isOngoingFlightConversation(conversationHistory[s]),
                isOngoingPersonalConversation(conversationHistory[s]))
        /\ UNCHANGED <<sessionContexts, chats, chatSessions, messages>>

(***************************************************************************)
(* FlightAgentService.processFlightQuery after its first wait              *)
(***************************************************************************)
\* getAIFlightHelp, or getContextualClarification, returns and the query is answered
FlightClarification(p, ai) ==
    /\ pc[p] \in {"getAIFlightHelp", "getContextualClarification"}
    /\ LET c == [call[p] EXCEPT !.generations = @ + 1, !.failures = @ + failuresOf(ai)]
           needed == joinAnd(c.missingInfo, Len(c.missingInfo))
           result ==
               IF pc[p] = "getAIFlightHelp"
               THEN [message |-> generated(ai, flightHelpDefault, flightHelpFallback),
                     requiresMoreInfo |-> "true", searchParams |-> undefined,
                     tripType |-> "undefined", flightData |-> "undefined"]
               ELSE [message |-> generated(ai,
                         "Great! I got some flight details, but I still need " \o needed
                             \o ". Could you provide that?",
                         "I need a bit more information for your flight search: " \o needed
                             \o ". Could you provide that?"),
                     requiresMoreInfo |-> "true", searchParams |-> c.extractedParams,
                     tripType |-> "undefined", flightData |-> "undefined"]
       IN  finishFlight(p, c, result, conversationHistory[c.session])
    /\ UNCHANGED <<conversationState, conversationContext, userContext, sessionContexts, chats,
                   chatSessions, messages>>

\* searchFlights returns: a failure, no flight, or the flights found
SearchFlights(p, outcome) ==
    /\ pc[p] = "searchFlights"
    /\ LET c == [call[p] EXCEPT !.searches = @ + 1,
                                !.failures = @ + (IF outcome = "error" THEN 1 ELSE 0)]
       IN  IF outcome = "empty"
           THEN finishFlight(p, c,
                    [message |-> noFlightsMessage(c.extractedParams),
                     requiresMoreInfo |-> "undefined", searchParams |-> c.extractedParams,
                     tripType |-> tripTypeOf(c.extractedParams), flightData |-> "none"],
                    conversationHistory[c.session])
           ELSE /\ call' = [call EXCEPT ![p] = c]
                /\ pc' = [pc EXCEPT ![p] = IF outcome = "error" THEN "handleFlightSearchError"
                                          ELSE "generateFlightResponse"]
                /\ UNCHANGED <<conversationHistory, response, turns>>
    /\ UNCHANGED <<conversationState, conversationContext, userContext, sessionContexts, chats,
                   chatSessions, messages>>

\* handleFlightSearchError returns and the query is answered
HandleFlightSearchError(p, ai) ==
    /\ pc[p] = "handleFlightSearchError"
    /\ LET c == [call[p] EXCEPT !.generations = @ + 1, !.failures = @ + failuresOf(ai)]
       IN  finishFlight(p, c,
               [message |-> generated(ai, searchErrorDefault, searchErrorFallback),
                requiresMoreInfo |-> "true", searchParams |-> c.extractedParams,
                tripType |-> tripTypeOf(c.extractedParams), flightData |-> "undefined"],
               conversationHistory[c.session])
    /\ UNCHANGED <<conversationState, conversationContext, userContext, sessionContexts, chats,
                   chatSessions, messages>>

\* generateFlightResponse returns and the query is answered
GenerateFlightResponse(p, ai) ==
    /\ pc[p] = "generateFlightResponse"
    /\ LET c == [call[p] EXCEPT !.generations = @ + 1, !.failures = @ + failuresOf(ai)]
       IN  finishFlight(p, c,
               [message |-> generated(ai, flightSummary, flightSummary),
                requiresMoreInfo |-> "false", searchParams |-> c.extractedParams,
                tripType |-> tripTypeOf(c.extractedParams), flightData |-> "flights"],
               conversationHistory[c.session])
    /\ UNCHANGED <<conversationState, conversationContext, userContext, sessionContexts, chats,
                   chatSessions, messages>>

(***************************************************************************)
(* PersonalAgentService.processMessage after its first wait                *)
(***************************************************************************)
\* extractContextWithPersonalInfo returns personalInfo (an empty object when the call or
\* the parsing fails); the fields with a value go to userContext and to contextUpdates
ExtractContext(p, personalInfo) ==
    /\ pc[p] = "extractContext"
    /\ LET s == call[p].session
           contextUpdates ==
               [k \in {j \in DOMAIN personalInfo : personalInfo[j] # ""} |-> personalInfo[k]]
       IN  /\ userContext' = [userContext EXCEPT ![s] = spread(@, contextUpdates)]
           /\ call' = [call EXCEPT ![p].contextUpdates = contextUpdates,
                                   ![p].generations = @ + 1]
    /\ pc' = [pc EXCEPT ![p] = "generateContent"]
    /\ UNCHANGED <<conversationHistory, conversationState, conversationContext,
                   sessionContexts, chats, turns, chatSessions, messages, response>>

\* generateContent returns the reply, or throws and the catch block answers
GenerateContent(p, ai) ==
    /\ pc[p] = "generateContent"
    /\ LET c == [call[p] EXCEPT !.generations = @ + 1, !.failures = @ + failuresOf(ai)]
       IN  IF ai.kind = "throw"
           THEN finishPersonal(p, c, [message |-> personalDefault, contextUpdates |-> undefined],
                               userContext[c.session])
           ELSE /\ call' = [call EXCEPT ![p] = [c EXCEPT !.aiMessage =
                                                   generated(ai, personalDefault, personalDefault)]]
                /\ pc' = [pc EXCEPT ![p] = "generateFollowUps"]
                /\ UNCHANGED <<conversationHistory, response, turns>>
    /\ UNCHANGED <<conversationState, conversationContext, userContext, sessionContexts, chats,
                   chatSessions, messages>>

\* generateFollowUps returns (it catches its own failures) and the message is answered
GenerateFollowUps(p) ==
    /\ pc[p] = "generateFollowUps"
    /\ LET c == [call[p] EXCEPT !.generations = @ + 1]
       IN  finishPersonal(p, c, [message |-> c.aiMessage, contextUpdates |-> c.contextUpdates],
                          userContext[c.session])
    /\ UNCHANGED <<conversationState, conversationContext, userContext, sessionContexts, chats,
                   chatSessions, messages>>

(***************************************************************************)
(* AgentRouterService.saveSessionContext and the return of                 *)
(* handlePersonalQuery; dbOk is false when the store throws                *)
(***************************************************************************)
SaveSessionContext(p, dbOk) ==
    /\ pc[p] = "saveSessionContext"
    /\ LET c == call[p]
           s == c.session
       IN  /\ sessionContexts' =
                 [sessionContexts EXCEPT
                     ![s] = IF ~dbOk THEN @
                            ELSE IF @.exists
                            THEN [@ EXCEPT !.contextData = spread(@, c.contextUpdates)]
                            ELSE [exists |-> TRUE, contextData |-> c.contextUpdates]]
           /\ response' =
                 [response EXCEPT
                     ![p] = personalResponse(c, [message |-> c.aiMessage,
                                                 contextUpdates |-> c.contextUpdates],
                                             userContext[s])]
           /\ turns' = [turns EXCEPT ![s] = @ + 1]
    /\ pc' = [pc EXCEPT ![p] = "idle"]
    /\ UNCHANGED <<conversationHistory, conversationState, conversationContext, userContext,
                   chats, chatSessions, messages, call>>

(***************************************************************************)
(* Requests served one at a time, for one session.                         *)
(***************************************************************************)
SerialProcs == {"p1"}

SerialSessions == {"s1"}

Next ==
    \E p \in SerialProcs :
        \/ \E s \in SerialSessions : \E message \in UserMessages : \E isNewChat \in BOOLEAN :
              StartChat(p, s, message, isNewChat)
        \/ \E dbOk \in BOOLEAN : LoadSessionContext(p, dbOk)
        \/ \E ai \in AiOutcomes : FlightClarification(p, ai)
        \/ \E outcome \in SearchOutcomes : SearchFlights(p, outcome)
        \/ \E ai \in AiOutcomes : HandleFlightSearchError(p, ai)
        \/ \E ai \in AiOutcomes : GenerateFlightResponse(p, ai)
        \/ \E personalInfo \in PersonalInfos : ExtractContext(p, personalInfo)
        \/ \E ai \in AiOutcomes : GenerateContent(p, ai)
        \/ GenerateFollowUps(p)
        \/ \E dbOk \in BOOLEAN : SaveSessionContext(p, dbOk)

Spec == Init /\ [][Next]_vars

(***************************************************************************)
(* Every call that chat awaits settles: it resolves or it rejects, and the *)
(* request goes on.  LoadSessionContext has no condition but its place in  *)
(* the request, so the step that leaves that place stands for it.          *)
(***************************************************************************)
AfterLoadSessionContext ==
    {"getAIFlightHelp", "getContextualClarification", "searchFlights", "extractContext", "idle"}

SessionContextLoaded(p) ==
    /\ pc[p] = "loadSessionContext"
    /\ \E next \in AfterLoadSessionContext : pc' = [pc EXCEPT ![p] = next]

Settle(p) ==
    \/ \E ai \in AiOutcomes : FlightClarification(p, ai)
    \/ \E outcome \in SearchOutcomes : SearchFlights(p, outcome)
    \/ \E ai \in AiOutcomes : HandleFlightSearchError(p, ai)
    \/ \E ai \in AiOutcomes : GenerateFlightResponse(p, ai)
    \/ \E personalInfo \in PersonalInfos : ExtractContext(p, personalInfo)
    \/ \E ai \in AiOutcomes : GenerateContent(p, ai)
    \/ GenerateFollowUps(p)
    \/ \E dbOk \in BOOLEAN : SaveSessionContext(p, dbOk)

FairSpec ==
    Spec /\ \A p \in SerialProcs : WF_pc(SessionContextLoaded(p)) /\ WF_vars(Settle(p))

(***************************************************************************)
(* getDynamicThreshold on its own: the two scores are drawn from a grid of *)
(* the decimals 0.00, 0.05, ... and the function is applied to them.       *)
(***************************************************************************)
GridSteps == 20

ScoreGrid == {Dec(5 * k, 2) : k \in 0..GridSteps}

ThresholdInit ==
    /\ \E flightScore \in ScoreGrid : \E personalScore \in ScoreGrid :
          call = [p \in Procs |->
                    IF p \in SerialProcs
                    THEN [NoCall EXCEPT !.flightScore = flightScore,
                                        !.personalScore = personalScore]
                    ELSE NoCall]
    /\ pc = [p \in Procs |-> IF p \in SerialProcs THEN "getDynamicThreshold" ELSE "idle"]
    /\ conversationHistory = [s \in Sessions |-> <<>>]
    /\ conversationState = [s \in Sessions |-> initialConversationState]
    /\ conversationContext = [s \in Sessions |-> emptyParams]
    /\ userContext = [s \in Sessions |-> emptyMap]
    /\ sessionContexts = [s \in Sessions |-> [exists |-> FALSE, contextData |-> emptyMap]]
    /\ chats = [s \in Sessions |-> 0]
    /\ chatSessions = ownedSessions
    /\ messages = [s \in Sessions |-> <<>>]
    /\ turns = [s \in Sessions |-> 0]
    /\ response = [p \in Procs |-> NoResponse]

GetDynamicThreshold(p) ==
    /\ pc[p] = "getDynamicThreshold"
    /\ call' = [call EXCEPT ![p].flightThreshold =
                                getDynamicThreshold(call[p].flightScore, call[p].personalScore)]
    /\ pc' = [pc EXCEPT ![p] = "returned"]
    /\ UNCHANGED <<conversationHistory, conversationState, conversationContext, userContext,
                   sessionContexts, chats, turns, chatSessions, messages, response>>

ThresholdNext == \E p \in SerialProcs : GetDynamicThreshold(p)

ThresholdSpec == ThresholdInit /\ [][ThresholdNext]_vars

(***************************************************************************)
(* Requests of one session that overlap.  ChatController.generateResponse  *)
(* takes the router of the session from sessionAgents and awaits its chat; *)
(* nothing makes a second request of the session wait for the first, so    *)
(* the steps of the two requests interleave at every await.  The requests  *)
(* continue a chat (isNewChat is false), so both use the same router.      *)
(***************************************************************************)
ConcurrentMessages == {msgGreeting, msgFullQuery, msgNoDate}

Await(p) ==
    \/ \E dbOk \in BOOLEAN : LoadSessionContext(p, dbOk)
    \/ Settle(p)

ConcurrentNext ==
    \E p \in Procs :
        \/ \E s \in SerialSessions : \E message \in ConcurrentMessages :
              StartChat(p, s, message, FALSE)
        \/ Await(p)

ConcurrentSpec == Init /\ [][ConcurrentNext]_vars

(***************************************************************************)
(* Requests of two sessions.  sessionAgents holds one AgentRouterService   *)
(* per session id, each with its own FlightAgentService and                *)
(* PersonalAgentService, and the SessionContext documents are looked up by *)
(* chat_session_id.  The requests of one session come one after the other; *)
(* the requests of the two sessions overlap in every way.                  *)
(***************************************************************************)
SessionsMessages == {msgGreeting, msgShortDate, msgNoDate}

\* the greatest number of chats of the two sessions together
MaxSessionsChats == 3

sessionOf(p) == IF p = "p1" THEN "s1" ELSE "s2"

\* the outcomes of a generative call in these runs: a question for the date, or a failure
SessionsAiOutcomes == {[kind |-> "text", text |-> genAskDate], [kind |-> "throw", text |-> ""]}

SessionsNext ==
    \E p \in Procs :
        \/ \E message \in SessionsMessages : \E isNewChat \in BOOLEAN :
              /\ chats["s1"] + chats["s2"] < MaxSessionsChats
              /\ StartChat(p, sessionOf(p), message, isNewChat)
        \/ \E dbOk \in BOOLEAN : LoadSessionContext(p, dbOk)
        \/ \E ai \in SessionsAiOutcomes : FlightClarification(p, ai)
        \/ \E outcome \in SearchOutcomes : SearchFlights(p, outcome)
        \/ \E ai \in SessionsAiOutcomes : HandleFlightSearchError(p, ai)
        \/ \E ai \in SessionsAiOutcomes : GenerateFlightResponse(p, ai)
        \/ \E personalInfo \in PersonalInfos : ExtractContext(p, personalInfo)
        \/ \E ai \in SessionsAiOutcomes : GenerateContent(p, ai)
        \/ GenerateFollowUps(p)
        \/ \E dbOk \in BOOLEAN : SaveSessionContext(p, dbOk)

SessionsSpec == Init /\ [][SessionsNext]_vars

(***************************************************************************)
(* saveSessionContext and loadSessionContext on their own.  A request of   *)
(* session s1 that told the name has been answered by the personal         *)
(* assistant and is about to save its context updates; the stored          *)
(* documents of the two sessions and the updates are drawn from the maps   *)
(* over the keys of personalInfo.  The updates are saved, and the next     *)
(* request of the session loads the document.                              *)
(***************************************************************************)
StoreValues == [name |-> {"Sam", "Ann"}, age |-> {"30", "31"}, location |-> {"Pune", "Goa"}]

StoredMaps ==
    UNION {{m \in [K -> UNION {StoreValues[k] : k \in DOMAIN StoreValues}] :
               \A k \in K : m[k] \in StoreValues[k]} : K \in SUBSET DOMAIN StoreValues}

NoDocument == [exists |-> FALSE, contextData |-> emptyMap]

StoredDocuments ==
    {NoDocument} \cup {[exists |-> TRUE, contextData |-> m] : m \in StoredMaps \ {emptyMap}}

\* the chat call that is about to save contextUpdates: the personal assistant answered
\* the message whose scores are in facts, after existingContext was loaded
savingCall(message, facts, existingContext, contextUpdates) ==
    [NoCall EXCEPT
        !.session = "s1", !.message = message, !.existingContext = existingContext,
        !.flightScore = facts.flightScore, !.personalScore = facts.personalScore,
        !.flightThreshold = getDynamicThreshold(facts.flightScore, facts.personalScore),
        !.handler = "personal", !.invoked = <<"personal">>,
        !.contextUpdates = contextUpdates, !.aiMessage = genNeutral, !.generations = 3]

StoreInit ==
    /\ \E document \in StoredDocuments :
       \E other \in {NoDocument, [exists |-> TRUE, contextData |-> [name |-> "Ann"]]} :
       \E contextUpdates \in StoredMaps \ {emptyMap} :
          /\ sessionContexts = [s \in Sessions |-> IF s \in SerialSessions THEN document
                                                   ELSE other]
          /\ userContext = [s \in Sessions |->
                               IF s \in SerialSessions
                               THEN spread(document.contextData, contextUpdates)
                               ELSE emptyMap]
          /\ call = [p \in Procs |->
                        IF p \in SerialProcs
                        THEN savingCall(msgName, messageFacts[msgName],
                                        IF document.exists THEN document.contextData
                                        ELSE undefined,
                                        contextUpdates)
                        ELSE NoCall]
    /\ pc = [p \in Procs |-> IF p \in SerialProcs THEN "saveSessionContext" ELSE "idle"]
    /\ conversationHistory =
          [s \in Sessions |->
              IF s \in SerialSessions
              THEN <<[role |-> "user", message |-> msgName],
                     [role |-> "assistant", message |-> genNeutral]>>
              ELSE <<>>]
    /\ conversationState =
          [s \in Sessions |->
              IF s \in SerialSessions
              THEN updateConversationState(initialConversationState, msgName, "personal")
              ELSE initialConversationState]
    /\ conversationContext = [s \in Sessions |-> emptyParams]
    /\ chats = [s \in Sessions |-> IF s \in SerialSessions THEN 1 ELSE 0]
    /\ chatSessions = ownedSessions
    /\ messages = [s \in Sessions |-> <<>>]
    /\ turns = [s \in Sessions |-> 0]
    /\ response = [p \in Procs |-> NoResponse]

StoreNext ==
    \E p \in SerialProcs :
        \/ \E dbOk \in BOOLEAN : SaveSessionContext(p, dbOk)
        \/ \E s \in SerialSessions : StartChat(p, s, msgGreeting, FALSE)
        \/ \E dbOk \in BOOLEAN : LoadSessionContext(p, dbOk)

StoreSpec == StoreInit /\ [][StoreNext]_vars

(***************************************************************************)
(* mergeFlightParams on its own.  The parameters of the turn are null or   *)
(* what extractFlightParams returns, the two airports and the outbound     *)
(* date with or without return date, currency and language; the context    *)
(* is empty or holds such parameters of an earlier turn.                   *)
(***************************************************************************)
turnValues ==
    [departureId |-> "PEK", arrivalId |-> "AUS", outboundDate |-> "2025-10-18",
     returnDate |-> "2025-10-24", currency |-> "USD", hl |-> "en"]

earlierValues ==
    [departureId |-> "DEL", arrivalId |-> "BOM", outboundDate |-> "2025-11-05",
     returnDate |-> "2025-11-12", currency |-> "EUR", hl |-> "fr"]

OptionalFields == {"returnDate", "currency", "hl"}

\* the parameter objects with the values of v: the three required fields and any of the
\* optional ones
paramsWith(v) ==
    {[f \in (ParamFields \ OptionalFields) \cup optional |-> v[f]] :
        optional \in SUBSET OptionalFields}

MergeInit ==
    /\ \E currentParams \in {null} \cup paramsWith(turnValues) :
          call = [p \in Procs |->
                    IF p \in SerialProcs
                    THEN [NoCall EXCEPT !.session = "s1", !.currentParams = currentParams]
                    ELSE NoCall]
    /\ \E contextParams \in {emptyParams} \cup paramsWith(earlierValues) :
          conversationContext = [s \in Sessions |-> IF s \in SerialSessions THEN contextParams
                                                    ELSE emptyParams]
    /\ pc = [p \in Procs |-> IF p \in SerialProcs THEN "mergeFlightParams" ELSE "idle"]
    /\ conversationHistory = [s \in Sessions |-> <<>>]
    /\ conversationState = [s \in Sessions |-> initialConversationState]
    /\ userContext = [s \in Sessions |-> emptyMap]
    /\ sessionContexts = [s \in Sessions |-> [exists |-> FALSE, contextData |-> emptyMap]]
    /\ chats = [s \in Sessions |-> 0]
    /\ chatSessions = ownedSessions
    /\ messages = [s \in Sessions |-> <<>>]
    /\ turns = [s \in Sessions |-> 0]
    /\ response = [p \in Procs |-> NoResponse]

MergeFlightParams(p) ==
    /\ pc[p] = "mergeFlightParams"
    /\ call' = [call EXCEPT ![p].extractedParams =
                                mergeFlightParams(call[p].currentParams,
                                                  conversationContext[call[p].session])]
    /\ pc' = [pc EXCEPT ![p] = "returned"]
    /\ UNCHANGED <<conversationHistory, conversationState, conversationContext, userContext,
                   sessionContexts, chats, turns, chatSessions, messages, response>>

MergeNext == \E p \in SerialProcs : MergeFlightParams(p)

MergeSpec == MergeInit /\ [][MergeNext]_vars

(***************************************************************************)
(* extractFlightParams on its own.  The message is put together from four  *)
(* parts, each possibly empty: a lead, a route, a date and a return date.  *)
(* tokens are the words of a part that are three capital letters.  written *)
(* is the date a date part denotes, as normalizeDate and                   *)
(* extractMonthNameDates read it (a date without a year is of the current  *)
(* year, and of two numbers the first is the day unless the second exceeds *)
(* 12); form is the way it is written.  cities are the airports of the     *)
(* cities of a route that is written "from ... to ...".                    *)
(***************************************************************************)
Leads ==
    {[text |-> "", tokens |-> <<>>],
     [text |-> "USD 500 ", tokens |-> <<"USD">>],
     [text |-> "FLY ", tokens |-> <<"FLY">>]}

Routes ==
    {[text |-> "PEK to AUS", tokens |-> <<"PEK", "AUS">>, cities |-> <<>>],
     [text |-> "from Mumbai to Pune", tokens |-> <<>>, cities |-> <<"BOM", "PNQ">>],
     [text |-> "from Mumbai to Pune via DEL and BOM", tokens |-> <<"DEL", "BOM">>,
      cities |-> <<"BOM", "PNQ">>],
     [text |-> "to AUS", tokens |-> <<"AUS">>, cities |-> <<>>]}

NoDate == [year |-> 0, month |-> 0, day |-> 0]

DateParts ==
    {[text |-> "", form |-> "none", written |-> NoDate],
     [text |-> " on 2025-10-18", form |-> "YYYY-MM-DD",
      written |-> [year |-> 2025, month |-> 10, day |-> 18]],
     [text |-> " on 2024-01-05", form |-> "YYYY-MM-DD",
      written |-> [year |-> 2024, month |-> 1, day |-> 5]],
     [text |-> " on 05/01/2024", form |-> "three-part",
      written |-> [year |-> 2024, month |-> 1, day |-> 5]],
     [text |-> " on 25-12", form |-> "two-part",
      written |-> [year |-> 2025, month |-> 12, day |-> 25]],
     [text |-> " on 15-9", form |-> "two-part",
      written |-> [year |-> 2025, month |-> 9, day |-> 15]],
     [text |-> " on Sep 15", form |-> "month-name",
      written |-> [year |-> 2025, month |-> 9, day |-> 15]],
     [text |-> " on Oct 1", form |-> "month-name",
      written |-> [year |-> 2025, month |-> 10, day |-> 1]],
     [text |-> " on 12/25", form |-> "slash", written |-> NoDate],
     [text |-> " tomorrow", form |-> "natural",
      written |-> [year |-> 2025, month |-> 10, day |-> 2]]}

ReturnParts ==
    {[text |-> "", form |-> "none", written |-> NoDate],
     [text |-> " returning 2025-10-24", form |-> "YYYY-MM-DD",
      written |-> [year |-> 2025, month |-> 10, day |-> 24]],
     [text |-> " returning 12/30", form |-> "slash",
      written |-> [year |-> 2025, month |-> 12, day |-> 30]]}

ExtractInputs == [lead : Leads, route : Routes, date : DateParts, return : ReturnParts]

inputText(i) == i.lead.text \o i.route.text \o i.date.text \o i.return.text

ExtractInit ==
    /\ \E i \in ExtractInputs :
          call = [p \in Procs |->
                    IF p \in SerialProcs
                    THEN [NoCall EXCEPT !.session = "s1", !.message = inputText(i)]
                    ELSE NoCall]
    /\ pc = [p \in Procs |-> IF p \in SerialProcs THEN "extractFlightParams" ELSE "idle"]
    /\ conversationHistory = [s \in Sessions |-> <<>>]
    /\ conversationState = [s \in Sessions |-> initialConversationState]
    /\ conversationContext = [s \in Sessions |-> emptyParams]
    /\ userContext = [s \in Sessions |-> emptyMap]
    /\ sessionContexts = [s \in Sessions |-> [exists |-> FALSE, contextData |-> emptyMap]]
    /\ chats = [s \in Sessions |-> 0]
    /\ chatSessions = ownedSessions
    /\ messages = [s \in Sessions |-> <<>>]
    /\ turns = [s \in Sessions |-> 0]
    /\ response = [p \in Procs |-> NoResponse]

\* const currentParams = this.flightPlanner.extractFlightParams(message)
ExtractFlightParams(p) ==
    /\ pc[p] = "extractFlightParams"
    /\ call' = [call EXCEPT ![p].currentParams = extractFlightParams(call[p].message)]
    /\ pc' = [pc EXCEPT ![p] = "returned"]
    /\ UNCHANGED <<conversationHistory, conversationState, conversationContext, userContext,
                   sessionContexts, chats, turns, chatSessions, messages, response>>

ExtractNext == \E p \in SerialProcs : ExtractFlightParams(p)

ExtractSpec == ExtractInit /\ [][ExtractNext]_vars

(***************************************************************************)
(* calculateFlightConfidence and calculatePersonalConfidence on their own. *)
(* The message is put together from a greeting, a personal part, a flight  *)
(* part and an ending, not all of them empty (generateResponse refuses an  *)
(* empty prompt), chosen so that the keyword groups, the multipliers, the  *)
(* bonuses and the penalties of the two functions occur alone and together.*)
(***************************************************************************)
Greetings == {"", "Hi, how are you? "}

PersonalParts ==
    {"", "My name is Sam and I live in Pune. ", "thanks, what is my age and my job? ",
     "I am 30 years old, call me at my phone. "}

FlightParts ==
    {"", "book", "check flights", "find flights from Mumbai to Goa tomorrow",
     "I need to book a round trip flight ticket on Air India from the airport to my destination for a journey"}

Endings == {"", " by train", " asap", "?"}

ScoreInputs ==
    {g \o q \o f \o e : g \in Greetings, q \in PersonalParts, f \in FlightParts, e \in Endings}
    \ {""}

ScoreInit ==
    /\ \E message \in ScoreInputs :
          call = [p \in Procs |->
                    IF p \in SerialProcs
                    THEN [NoCall EXCEPT !.session = "s1", !.message = message]
                    ELSE NoCall]
    /\ pc = [p \in Procs |-> IF p \in SerialProcs THEN "calculateConfidence" ELSE "idle"]
    /\ conversationHistory = [s \in Sessions |-> <<>>]
    /\ conversationState = [s \in Sessions |-> initialConversationState]
    /\ conversationContext = [s \in Sessions |-> emptyParams]
    /\ userContext = [s \in Sessions |-> emptyMap]
    /\ sessionContexts = [s \in Sessions |-> [exists |-> FALSE, contextData |-> emptyMap]]
    /\ chats = [s \in Sessions |-> 0]
    /\ chatSessions = ownedSessions
    /\ messages = [s \in Sessions |-> <<>>]
    /\ turns = [s \in Sessions |-> 0]
    /\ response = [p \in Procs |-> NoResponse]

\* let flightScore = this.calculateFlightConfidence(message);
\* let personalScore = this.calculatePersonalConfidence(message);
CalculateConfidence(p) ==
    /\ pc[p] = "calculateConfidence"
    /\ call' = [call EXCEPT ![p].flightScore = calculateFlightConfidence(call[p].message),
                            ![p].personalScore = calculatePersonalConfidence(call[p].message)]
    /\ pc' = [pc EXCEPT ![p] = "returned"]
    /\ UNCHANGED <<conversationHistory, conversationState, conversationContext, userContext,
                   sessionContexts, chats, turns, chatSessions, messages, response>>

ScoreNext == \E p \in SerialProcs : CalculateConfidence(p)

ScoreSpec == ScoreInit /\ [][ScoreNext]_vars

(***************************************************************************)
(* ChatController.generateResponse as a whole: the checks of the request,  *)
(* the session it finds or creates, the chat call, and the Message         *)
(* documents it stores when chat has returned.  The requests are served    *)
(* one at a time; they come from two users and from callers without a      *)
(* user, and they name no session, a malformed id, or a well-formed one.   *)
(***************************************************************************)
\* req.body.prompt: a text, a blank text, or a number
Prompts ==
    {[type |-> "string", value |-> msgGreeting], [type |-> "string", value |-> msgFullQuery],
     [type |-> "string", value |-> msgNoDate], [type |-> "string", value |-> "  "],
     [type |-> "number", value |-> "42"]}

\* req.body.sessionId: none, a text that is no ObjectId, or the id of a session
SessionIds == {"", "not-an-id"} \cup Sessions

\* mongoose.Types.ObjectId.isValid
ObjectIdIsValid(sessionId) == sessionId \in Sessions

\* the titles generateSessionTitle and updateSessionTitle give a session
Titles == {"New Chat", "Trip"}

\* the greatest number of chat calls generateResponse makes
MaxControllerChats == 2

\* the requests generateResponse is called with; isNewChat is read after the checks
Requests ==
    [prompt : Prompts, userId : Users \cup {""}, sessionId : SessionIds, isNewChat : {FALSE}]
        \cup [prompt : {[type |-> "string", value |-> msgGreeting]}, userId : Users,
              sessionId : Sessions \cup {""}, isNewChat : {TRUE}]

\* a faulty variant: the owner of the session is not compared with the user
rejectionWithoutOwner(request, sessions) ==
    IF request.prompt.type # "string" \/ Len(trim(request.prompt.value)) = 0 THEN 400
    ELSE IF request.userId = "" THEN 401
    ELSE IF request.sessionId = "" THEN 0
    ELSE IF ~ObjectIdIsValid(request.sessionId) THEN 400
    ELSE IF ~sessions[request.sessionId].exists THEN 404
    ELSE 0

\* the status generateResponse refuses the request with, 0 when it passes every check
rejection(request, sessions) ==
    IF request.prompt.type # "string" \/ Len(trim(request.prompt.value)) = 0 THEN 400
    ELSE IF request.userId = "" THEN 401
    ELSE IF request.sessionId = "" THEN 0
    ELSE IF ~ObjectIdIsValid(request.sessionId) THEN 400
    ELSE IF ~sessions[request.sessionId].exists THEN 404
    ELSE IF sessions[request.sessionId].userId # request.userId THEN 403
    ELSE 0

\* res.status(status).json(...) and return, before any call of chat
answer(p, request, status) ==
    /\ call' = [call EXCEPT ![p] = [NoCall EXCEPT !.request = request, !.status = status]]
    /\ response' = [response EXCEPT ![p] = NoResponse]
    /\ UNCHANGED <<conversationHistory, conversationState, conversationContext, userContext,
                   sessionContexts, chats, turns, chatSessions, messages, pc>>

\* generateResponse from its start to the call of chat, or to the answer that refuses the
\* request; dbOk is false when ChatSession.findById or ChatSession.create throws
GenerateResponse(p, request) ==
    LET serve(status) ==
            IF status \in {400, 401} THEN answer(p, request, status)
            ELSE \E dbOk \in BOOLEAN :
                    IF ~dbOk THEN answer(p, request, 500)
                    ELSE IF status # 0 THEN answer(p, request, status)
                    ELSE IF request.sessionId # ""
                    THEN /\ chats[request.sessionId] < MaxChats
                         /\ callChat(p, request.sessionId, request, FALSE)
                         /\ UNCHANGED <<chatSessions, messages>>
                    ELSE \E s \in Sessions : \E title \in Titles :
                            /\ ~chatSessions[s].exists
                            /\ chatSessions' =
                                  [chatSessions EXCEPT
                                      ![s] = [exists |-> TRUE, userId |-> request.userId,
                                              title |-> title]]
                            /\ callChat(p, s, request, TRUE)
                            /\ UNCHANGED messages
    IN  /\ pc[p] = "idle"
        /\ call[p].session = "" \/ call[p].status # 0
        /\ serve(rejection(request, chatSessions))

\* generateResponse after chat has returned: Message.create of the prompt, Message.create
\* of the reply, the title of the session, and the answer; stored is the number of
\* Message.create calls that succeed
StoreMessages(p, stored, title) ==
    LET s == call[p].session
        records == <<[is_user_message |-> TRUE, message |-> call[p].message,
                      userId |-> call[p].request.userId],
                     [is_user_message |-> FALSE, message |-> response[p].response,
                      userId |-> call[p].request.userId]>>
        updateSessionTitle(messageCount) ==
            IF stored = 2 /\ (call[p].isNewSession \/ messageCount % 6 = 0)
               /\ chatSessions[s].userId = call[p].request.userId
            THEN [chatSessions EXCEPT ![s].title = title]
            ELSE chatSessions
    IN  /\ pc[p] = "idle"
        /\ call[p].session # ""
        /\ call[p].status = 0
        /\ messages' = [messages EXCEPT ![s] = @ \o SubSeq(records, 1, stored)]
        /\ chatSessions' = updateSessionTitle(Len(messages[s]) + stored)
        /\ call' = [call EXCEPT ![p].status = IF stored = 2 THEN 200 ELSE 500]
        /\ UNCHANGED <<conversationHistory, conversationState, conversationContext,
                       userContext, sessionContexts, chats, turns, pc, response>>

\* one session is there and belongs to the first user; the other id is free
ControllerInit ==
    /\ conversationHistory = [s \in Sessions |-> <<>>]
    /\ conversationState = [s \in Sessions |-> initialConversationState]
    /\ conversationContext = [s \in Sessions |-> emptyParams]
    /\ userContext = [s \in Sessions |-> emptyMap]
    /\ sessionContexts = [s \in Sessions |-> [exists |-> FALSE, contextData |-> emptyMap]]
    /\ chats = [s \in Sessions |-> 0]
    /\ turns = [s \in Sessions |-> 0]
    /\ chatSessions = [s \in Sessions |-> IF s \in SerialSessions THEN ownedSessions[s]
                                          ELSE NoSession]
    /\ messages = [s \in Sessions |-> <<>>]
    /\ pc = [p \in Procs |-> "idle"]
    /\ call = [p \in Procs |-> NoCall]
    /\ response = [p \in Procs |-> NoResponse]

ControllerNext ==
    \E p \in SerialProcs :
        \/ \E request \in Requests :
              /\ chats["s1"] + chats["s2"] < MaxControllerChats
              /\ GenerateResponse(p, request)
        \/ \E dbOk \in BOOLEAN : LoadSessionContext(p, dbOk)
        \/ \E ai \in SessionsAiOutcomes : FlightClarification(p, ai)
        \/ \E outcome \in SearchOutcomes : SearchFlights(p, outcome)
        \/ \E ai \in SessionsAiOutcomes : HandleFlightSearchError(p, ai)
        \/ \E ai \in SessionsAiOutcomes : GenerateFlightResponse(p, ai)
        \/ \E personalInfo \in PersonalInfos : ExtractContext(p, personalInfo)
        \/ \E ai \in SessionsAiOutcomes : GenerateContent(p, ai)
        \/ GenerateFollowUps(p)
        \/ \E dbOk \in BOOLEAN : SaveSessionContext(p, dbOk)
        \/ \E stored \in 0..2 : \E title \in Titles : StoreMessages(p, stored, title)

ControllerSpec == ControllerInit /\ [][ControllerNext]_vars

(***************************************************************************)
(* FlightPlanner.normalizeDate on its own: it is called with the texts the *)
(* date patterns of extractFlightParams match, and here it is called once  *)
(* more with what it has returned.                                         *)
(***************************************************************************)
\* the texts of /\d{4}-\d{2}-\d{2}/, by their parts
IsoDates == [year : {"2024", "2025"}, month : {"01", "10", "13"}, day : {"05", "18", "32"}]

\* the texts of \d{1,2}[-\/]\d{1,2} and \d{1,2}[-\/]\d{1,2}[-\/]\d{2,4}, by their parts;
\* a year of "" is a date of two parts
NumericDates ==
    [first : {"1", "05", "12", "13", "31"}, second : {"2", "12", "13", "30"},
     year : {"", "24", "99", "123", "2025"}, separator : {"/", "-"}]

isoText(d) == d.year \o "-" \o d.month \o "-" \o d.day

numericText(d) ==
    d.first \o d.separator \o d.second
        \o (IF d.year = "" THEN "" ELSE d.separator \o d.year)

DateTexts == {isoText(d) : d \in IsoDates} \cup {numericText(d) : d \in NumericDates}

NormalizeInit ==
    /\ conversationHistory = [s \in Sessions |-> <<>>]
    /\ conversationState = [s \in Sessions |-> initialConversationState]
    /\ conversationContext = [s \in Sessions |-> emptyParams]
    /\ userContext = [s \in Sessions |-> emptyMap]
    /\ sessionContexts = [s \in Sessions |-> [exists |-> FALSE, contextData |-> emptyMap]]
    /\ chats = [s \in Sessions |-> 0]
    /\ chatSessions = ownedSessions
    /\ messages = [s \in Sessions |-> <<>>]
    /\ turns = [s \in Sessions |-> 0]
    /\ response = [p \in Procs |-> NoResponse]
    /\ \E dateStr \in DateTexts :
          /\ call = [p \in Procs |-> IF p \in SerialProcs
                                     THEN [NoCall EXCEPT !.message = dateStr] ELSE NoCall]
          /\ pc = [p \in Procs |-> IF p \in SerialProcs THEN "normalizeDate" ELSE "idle"]

\* normalizeDate(dateStr), first of the text and then of its own result
NormalizeDate(p) ==
    LET apply(dateStr) ==
            call' = [call EXCEPT ![p].normalized = Append(@, normalizeDate(dateStr))]
    IN  /\ pc[p] = "normalizeDate"
        /\ apply(IF call[p].normalized = <<>> THEN call[p].message
                 ELSE call[p].normalized[Len(call[p].normalized)])
        /\ pc' = [pc EXCEPT ![p] = IF call[p].normalized = <<>> THEN "normalizeDate"
                                   ELSE "returned"]
        /\ UNCHANGED <<conversationHistory, conversationState, conversationContext,
                       userContext, sessionContexts, chats, turns, chatSessions, messages,
                       response>>

NormalizeNext == \E p \in SerialProcs : NormalizeDate(p)

NormalizeSpec == NormalizeInit /\ [][NormalizeNext]_vars

(***************************************************************************)
(* isOngoingFlightConversation on its own: the history is any sequence of  *)
(* completed chats, a user turn followed by the reply, and the function is *)
(* applied to it as chat does before it appends the new message.           *)
(***************************************************************************)
\* the greatest number of completed chats in the history
MaxPairs == 4

UserTurns == {msgGreeting, msgStory, msgShortDate}

AssistantTurns == {genNeutral, genWhen, genAskDate}

\* the history that the chats of a sequence of (user message, reply) pairs leave
historyOf(pairs) ==
    [i \in 1..(2 * Len(pairs)) |->
        IF i % 2 = 1 THEN [role |-> "user", message |-> pairs[(i + 1) \div 2][1]]
        ELSE [role |-> "assistant", message |-> pairs[i \div 2][2]]]

Histories ==
    {historyOf(pairs) : pairs \in UNION {[1..n -> UserTurns \X AssistantTurns] : n \in 0..MaxPairs}}

OngoingInit ==
    /\ \E history \in Histories :
          conversationHistory = [s \in Sessions |-> IF s \in SerialSessions THEN history
                                                    ELSE <<>>]
    /\ conversationState = [s \in Sessions |-> initialConversationState]
    /\ conversationContext = [s \in Sessions |-> emptyParams]
    /\ userContext = [s \in Sessions |-> emptyMap]
    /\ sessionContexts = [s \in Sessions |-> [exists |-> FALSE, contextData |-> emptyMap]]
    /\ chats = [s \in Sessions |-> 0]
    /\ chatSessions = ownedSessions
    /\ messages = [s \in Sessions |-> <<>>]
    /\ turns = [s \in Sessions |-> 0]
    /\ response = [p \in Procs |-> NoResponse]
    /\ call = [p \in Procs |-> IF p \in SerialProcs THEN [NoCall EXCEPT !.session = "s1"]
                               ELSE NoCall]
    /\ pc = [p \in Procs |-> IF p \in SerialProcs THEN "isOngoingFlightConversation"
                             ELSE "idle"]

\* const isInFlightConversation = this.isOngoingFlightConversation()
IsOngoingFlightConversation(p) ==
    /\ pc[p] = "isOngoingFlightConversation"
    /\ call' = [call EXCEPT ![p].isInFlightConversation =
                                isOngoingFlightConversation(conversationHistory[call[p].session])]
    /\ pc' = [pc EXCEPT ![p] = "returned"]
    /\ UNCHANGED <<conversationHistory, conversationState, conversationContext, userContext,
                   sessionContexts, chats, turns, chatSessions, messages, response>>

OngoingNext == \E p \in SerialProcs : IsOngoingFlightConversation(p)

OngoingSpec == OngoingInit /\ [][OngoingNext]_vars

(***************************************************************************)
(* The selection of the assistant in chat, for two calls whose score pairs *)
(* agree in one score: the routing decision as a function of the scores.   *)
(***************************************************************************)
RoutingInit ==
    /\ \E flightScore \in ScoreGrid : \E personalScore \in ScoreGrid :
       \E other \in ScoreGrid : \E sameFlightScore \in BOOLEAN :
          call = [p \in Procs |->
                    IF p \in SerialProcs
                    THEN [NoCall EXCEPT !.flightScore = flightScore,
                                        !.personalScore = personalScore]
                    ELSE IF sameFlightScore
                    THEN [NoCall EXCEPT !.flightScore = flightScore,
                                        !.personalScore = other]
                    ELSE [NoCall EXCEPT !.flightScore = other,
                                        !.personalScore = personalScore]]
    /\ pc = [p \in Procs |-> "getDynamicThreshold"]
    /\ conversationHistory = [s \in Sessions |-> <<>>]
    /\ conversationState = [s \in Sessions |-> initialConversationState]
    /\ conversationContext = [s \in Sessions |-> emptyParams]
    /\ userContext = [s \in Sessions |-> emptyMap]
    /\ sessionContexts = [s \in Sessions |-> [exists |-> FALSE, contextData |-> emptyMap]]
    /\ chats = [s \in Sessions |-> 0]
    /\ chatSessions = ownedSessions
    /\ messages = [s \in Sessions |-> <<>>]
    /\ turns = [s \in Sessions |-> 0]
    /\ response = [p \in Procs |-> NoResponse]

\* const flightThreshold = this.getDynamicThreshold(flightScore, personalScore);
\* if (flightScore >= flightThreshold && flightScore > personalScore) ... else ...
SelectAgent(p) ==
    /\ pc[p] = "getDynamicThreshold"
    /\ LET select(c, flightThreshold) ==
               [c EXCEPT !.flightThreshold = flightThreshold,
                         !.handler = IF routesToFlight(c.flightScore, flightThreshold,
                                                       c.personalScore)
                                     THEN "flight" ELSE "personal"]
       IN  call' = [call EXCEPT
                      ![p] = select(@, getDynamicThreshold(@.flightScore, @.personalScore))]
    /\ pc' = [pc EXCEPT ![p] = "returned"]
    /\ UNCHANGED <<conversationHistory, conversationState, conversationContext, userContext,
                   sessionContexts, chats, turns, chatSessions, messages, response>>

RoutingNext == \E p \in Procs : SelectAgent(p)

RoutingSpec == RoutingInit /\ [][RoutingNext]_vars

(***************************************************************************)
(* A longer conversation of one session: the requests come one after the   *)
(* other, none of them asks for a new chat, and there are enough of them   *)
(* for a message to leave the six most recent entries of the history.      *)
(***************************************************************************)
MaxWindowChats == 5

\* a date, a greeting, and a full query as the opening of the conversation
WindowMessages == {msgShortDate, msgGreeting, msgFullQuery}

\* the outcomes of a generative call in these runs: a reply without a flight word, or a failure
WindowAiOutcomes == {[kind |-> "text", text |-> genNeutral], [kind |-> "throw", text |-> ""]}

StartWindowChat(p, s, message) ==
    /\ pc[p] = "idle"
    /\ chats[s] < MaxWindowChats
    /\ message = msgFullQuery => chats[s] = 0
    /\ callChat(p, s, [prompt |-> [type |-> "string", value |-> message],
                       userId |-> chatSessions[s].userId, sessionId |-> s,
                       isNewChat |-> FALSE], FALSE)
    /\ UNCHANGED <<chatSessions, messages>>

WindowNext ==
    \E p \in SerialProcs :
        \/ \E s \in SerialSessions : \E message \in WindowMessages :
              StartWindowChat(p, s, message)
        \/ LoadSessionContext(p, TRUE)
        \/ \E ai \in WindowAiOutcomes : FlightClarification(p, ai)
        \/ \E outcome \in {"error", "flights"} : SearchFlights(p, outcome)
        \/ \E ai \in WindowAiOutcomes : HandleFlightSearchError(p, ai)
        \/ \E ai \in WindowAiOutcomes : GenerateFlightResponse(p, ai)
        \/ \E personalInfo \in PersonalInfos : ExtractContext(p, personalInfo)
        \/ \E ai \in WindowAiOutcomes : GenerateContent(p, ai)
        \/ GenerateFollowUps(p)
        \/ \E dbOk \in BOOLEAN : SaveSessionContext(p, dbOk)

WindowSpec == Init /\ [][WindowNext]_vars

(***************************************************************************)
(* Properties.  Comparisons with a decimal are made on the exact values:   *)
(* tenTimes(x) is 10 * x and units(n) is n, neither rounded, so            *)
(* less(tenTimes(x), units(3)) says x < 0.3.                               *)
(***************************************************************************)
tenTimes(a) == scaleFrom(a, 10, 1, 0)

units(n) == zeros(FractionDigits) \o natDigits(n)

\* |a - b|, not rounded
distance(a, b) == IF less(a, b) THEN subtract(b, a) ELSE subtract(a, b)

\* the request p has been routed to an assistant
dispatched(p) == call[p].handler # ""

\* the chat call of request p has returned
returned(p) == pc[p] = "idle" /\ response[p] # NoResponse

\* the raw scores of the message of request p
rawScores(p) == messageFacts[call[p].message]

\* C1: once the handler is selected, the scores are the raw scores after the floors, the
\* threshold is the dynamic threshold of the two, the flight assistant is selected exactly
\* when flightScore >= threshold and flightScore > personalScore, the personal assistant
\* otherwise, and exactly one assistant is invoked; the response names the selected one.
DispatchRule ==
    \A p \in Procs :
        IF ~dispatched(p) THEN call[p].invoked = <<>>
        ELSE /\ call[p].flightScore =
                    boostFlight(rawScores(p).flightScore, call[p].isInFlightConversation)
             /\ call[p].personalScore =
                    boostPersonal(rawScores(p).personalScore, call[p].isInPersonalConversation)
             /\ call[p].flightThreshold =
                    getDynamicThreshold(call[p].flightScore, call[p].personalScore)
             /\ call[p].handler =
                    IF /\ ~less(call[p].flightScore, call[p].flightThreshold)
                       /\ less(call[p].personalScore, call[p].flightScore)
                    THEN "flight" ELSE "personal"
             /\ call[p].invoked = <<call[p].handler>>
             /\ returned(p) => response[p].metadata.type = call[p].handler

\* a chat answered by the personal assistant although the flight score reached the threshold
PersonalDespiteThreshold ==
    \E p \in Procs :
        /\ returned(p)
        /\ call[p].handler = "personal"
        /\ ~less(call[p].flightScore, call[p].flightThreshold)
        /\ less(<<>>, call[p].flightScore)
        /\ response[p].metadata.type = "personal"

\* C2 as stated: without the personal floor, a flight score of at least 0.3 that is
\* greater than the personal score selects the flight assistant.
FlightAboveBase ==
    \A p \in Procs :
        /\ dispatched(p)
        /\ ~call[p].isInPersonalConversation
        /\ ~less(call[p].flightScore, Dec(3, 1))
        /\ less(call[p].personalScore, call[p].flightScore)
        => call[p].handler = "flight"

\* C2: without the personal floor, a flight score that is greater than the personal score
\* selects the flight assistant when it is at least 0.5, or at least 0.3 and at least 0.1
\* above the personal score.
FlightAboveBaseWithLead ==
    \A p \in Procs :
        /\ dispatched(p)
        /\ ~call[p].isInPersonalConversation
        /\ ~less(call[p].flightScore, Dec(3, 1))
        /\ less(call[p].personalScore, call[p].flightScore)
        /\ \/ ~less(call[p].flightScore, Dec(5, 1))
           \/ ~less(distance(call[p].flightScore, call[p].personalScore), Dec(1, 1))
        => call[p].handler = "flight"

\* a chat answered by the flight assistant on a flight score of at least 0.3 and below 0.5
FlightBelowHalf ==
    \E p \in Procs :
        /\ returned(p)
        /\ ~call[p].isInPersonalConversation
        /\ ~less(call[p].flightScore, Dec(3, 1))
        /\ less(call[p].flightScore, Dec(5, 1))
        /\ ~less(distance(call[p].flightScore, call[p].personalScore), Dec(1, 1))
        /\ call[p].handler = "flight"

\* C3 as stated: a message with several routes is answered with the reply that asks for one
\* route at a time, whatever its scores and whatever the history.
MultiRouteGuardFirst ==
    \A p \in Procs :
        returned(p) /\ rawScores(p).multipleRoutes
        => /\ response[p].response = multiRouteReply
           /\ response[p].metadata.requiresMoreInfo = "true"

\* the history of the session of request p when its chat call began (the call has returned)
priorHistory(p) ==
    SubSeq(conversationHistory[call[p].session], 1,
           Len(conversationHistory[call[p].session]) - 2)

\* the messages of the session of request p up to its own, as one text (the call has returned)
historyText(p) ==
    joinMessages(conversationHistory[call[p].session],
                 Len(conversationHistory[call[p].session]) - 1)

\* the field f as the flight assistant resolves it for request p: from the message, else
\* from the history, else from the accumulated flight context (the call has returned)
resolvedField(p, f) ==
    IF extractedFields(call[p].message)[f] # "" THEN extractedFields(call[p].message)[f]
    ELSE IF extractedFields(historyText(p))[f] # "" THEN extractedFields(historyText(p))[f]
    ELSE field(conversationContext[call[p].session], f)

\* C4 as stated: a flight query with both airports resolved and no outbound date is answered
\* with a clarification request whose missing list is exactly <<"departure date">>, that
\* carries the two airports as searchParams, and no search is made.
MissingDateClarified ==
    \A p \in Procs :
        /\ returned(p)
        /\ call[p].handler = "flight"
        /\ resolvedField(p, "departureId") # ""
        /\ resolvedField(p, "arrivalId") # ""
        /\ resolvedField(p, "outboundDate") = ""
        => /\ response[p].metadata.requiresMoreInfo = "true"
           /\ call[p].missingInfo = <<"departure date">>
           /\ response[p].metadata.searchParams # undefined
           /\ field(response[p].metadata.searchParams, "departureId")
                 = resolvedField(p, "departureId")
           /\ field(response[p].metadata.searchParams, "arrivalId")
                 = resolvedField(p, "arrivalId")
           /\ call[p].searches = 0

\* the assistant's message asks for flight information
asksForFlightInfo(message) ==
    \E k \in 1..Len(flightInfoWords) : lowerIncludes(message, flightInfoWords[k])

\* request p answers a flight question: the last entry of the history was the assistant's
\* and asked for flight information, and the message scores below 0.25 as a flight message
\* and at most 0.3 as a personal one (the call has returned)
isFlightFollowUp(p) ==
    /\ Len(priorHistory(p)) > 0
    /\ priorHistory(p)[Len(priorHistory(p))].role = "assistant"
    /\ asksForFlightInfo(priorHistory(p)[Len(priorHistory(p))].message)
    /\ less(rawScores(p).flightScore, Dec(25, 2))
    /\ ~less(Dec(3, 1), rawScores(p).personalScore)

\* C5: the short answer to a flight question of the assistant goes to the flight assistant:
\* its flight score is the floor 0.7 and the threshold is at most 0.5, with the personal
\* floor or without it.
FlightFollowUp ==
    \A p \in Procs :
        returned(p) /\ isFlightFollowUp(p)
        => /\ call[p].isInFlightConversation
           /\ call[p].flightScore = Dec(7, 1)
           /\ ~less(Dec(5, 1), call[p].flightThreshold)
           /\ call[p].handler = "flight"
           /\ response[p].metadata.type = "flight"

\* the short answer to a flight question went to the flight assistant under both floors
FollowUpUnderBothFloors ==
    \E p \in Procs :
        /\ returned(p)
        /\ isFlightFollowUp(p)
        /\ call[p].isInPersonalConversation
        /\ call[p].personalScore = Dec(6, 1)
        /\ call[p].handler = "flight"

\* C6: the score used for routing is the greater of the raw score and the floor (0.7 for
\* flight, 0.6 for personal) when the flag holds and the raw score when it does not; it is
\* never below the raw score and lies within [0, 1].
FloorsOnlyRaise ==
    \A p \in Procs :
        dispatched(p)
        => /\ call[p].flightScore =
                  IF call[p].isInFlightConversation /\ less(rawScores(p).flightScore, Dec(7, 1))
                  THEN Dec(7, 1) ELSE rawScores(p).flightScore
           /\ call[p].personalScore =
                  IF /\ call[p].isInPersonalConversation
                     /\ less(rawScores(p).personalScore, Dec(6, 1))
                  THEN Dec(6, 1) ELSE rawScores(p).personalScore
           /\ ~less(call[p].flightScore, rawScores(p).flightScore)
           /\ ~less(call[p].personalScore, rawScores(p).personalScore)
           /\ ~less(One, call[p].flightScore)
           /\ ~less(One, call[p].personalScore)

\* under the flight flag a raw flight score above the floor was kept
HigherScoreKept ==
    \E p \in Procs :
        /\ dispatched(p)
        /\ call[p].isInFlightConversation
        /\ less(Dec(7, 1), rawScores(p).flightScore)
        /\ call[p].flightScore = rawScores(p).flightScore

\* C7: getDynamicThreshold returns 0.5 when the scores differ by less than 0.1, 0.25 when
\* they differ by more than 0.3, and 0.3 otherwise; it returns nothing else.
ThresholdTable ==
    \A p \in Procs : pc[p] = "returned" =>
        LET difference == tenTimes(distance(call[p].flightScore, call[p].personalScore))
            threshold == call[p].flightThreshold
        IN  /\ less(difference, units(1)) => threshold = Dec(5, 1)
            /\ less(units(3), difference) => threshold = Dec(25, 2)
            /\ ~less(difference, units(1)) /\ ~less(units(3), difference)
                  => threshold = Dec(3, 1)
            /\ threshold \in {Dec(5, 1), Dec(25, 2), Dec(3, 1)}

\* getDynamicThreshold has returned for two scores whose difference is the number 0.1
ThresholdAtOneTenth ==
    \E p \in Procs :
        /\ pc[p] = "returned"
        /\ distance(call[p].flightScore, call[p].personalScore) = Dec(1, 1)
        /\ call[p].flightThreshold = Dec(3, 1)

\* C8 as stated: when a downstream call of a chat has failed, the search was made at most
\* once, the chat returns a text, and the turn is marked requiresMoreInfo = true.
FailureAsksForMore ==
    \A p \in Procs :
        returned(p) /\ call[p].failures > 0
        => /\ call[p].searches <= 1
           /\ response[p].response # ""
           /\ response[p].metadata.requiresMoreInfo = "true"

\* C9: every chat call returns, and what it returns carries a response text, whatever the
\* message, the history and the failures of the store, the search and the text service.
ChatReturns ==
    /\ [](\A p \in Procs : returned(p) => response[p].response # "")
    /\ \A p \in Procs : (pc[p] # "idle") ~> returned(p)

\* a chat has returned a text after its search and its error message both failed
ReturnedAfterFailures ==
    \E p \in Procs :
        /\ returned(p)
        /\ call[p].failures = 2
        /\ response[p].response = searchErrorFallback

\* the number of entries the chat call in progress has appended to the history of s
appended(s) ==
    IF \E p \in Procs : call[p].session = s /\ pc[p] = "saveSessionContext" THEN 2
    ELSE IF \E p \in Procs : call[p].session = s /\ pc[p] \notin {"idle", "loadSessionContext"}
    THEN 1 ELSE 0

\* the history alternates user, assistant from a user entry, and holds two entries for each
\* chat completed since the last reset, then those of the chat in progress, whose user
\* message stands before the assistant is awaited
HistoryShape ==
    /\ \A s \in Sessions :
          /\ Len(conversationHistory[s]) = 2 * turns[s] + appended(s)
          /\ \A i \in 1..Len(conversationHistory[s]) :
                conversationHistory[s][i].role = IF i % 2 = 1 THEN "user" ELSE "assistant"
    /\ \A p \in Procs :
          dispatched(p) /\ ~returned(p)
          => conversationHistory[call[p].session][2 * turns[call[p].session] + 1]
                = [role |-> "user", message |-> call[p].message]

\* a step keeps the entries of every history and appends at most two (a user message, and
\* its reply when no call is awaited in between), unless it is the reset of a new chat
HistoryKept ==
    \A s \in Sessions :
        \/ /\ Len(conversationHistory'[s]) - Len(conversationHistory[s]) \in 0..2
           /\ SubSeq(conversationHistory'[s], 1, Len(conversationHistory[s]))
                 = conversationHistory[s]
        \/ /\ conversationHistory'[s] = <<>>
           /\ turns'[s] = 0
           /\ chats'[s] = chats[s] + 1

\* C10: a completed chat call leaves two entries in the history, the user's message, which
\* is appended before the assistant is invoked, and the reply; entries are never changed,
\* reordered or removed except by a reset; the history alternates from a user entry and
\* its length is twice the number of chats since the last reset.
HistoryAppendOnly == []HistoryShape /\ [][HistoryKept]_vars

\* two chats in a row have been recorded
TwoChatsRecorded ==
    \E s \in Sessions :
        /\ turns[s] = 2
        /\ Len(conversationHistory[s]) = 4
        /\ \A p \in Procs : pc[p] = "idle"

(***************************************************************************)
(* Requests of one session                                                 *)
(***************************************************************************)
\* the requests that are inside the router of session s: chat has been called and has
\* not returned
inProgress(s) == {p \in Procs : pc[p] # "idle" /\ call[p].session = s}

\* C11: at most one request of a session is inside the session's router at a time, and
\* no other message is appended to the history between the user message of a request
\* and the reply to it: after a user message comes the assistant's reply.
OneRequestPerSession ==
    \A s \in Sessions :
        /\ Cardinality(inProgress(s)) <= 1
        /\ \A i \in 1..(Len(conversationHistory[s]) - 1) :
              conversationHistory[s][i].role = "user"
                  => conversationHistory[s][i + 1].role = "assistant"

(***************************************************************************)
(* Requests of different sessions                                          *)
(***************************************************************************)
\* what the program holds for session s: the fields of its router and of the router's two
\* assistants, and its SessionContext document
sessionState(s) ==
    <<conversationHistory[s], conversationState[s], conversationContext[s], userContext[s],
      sessionContexts[s]>>

\* the history of the session of request p before the message of p (p has not returned)
historyBefore(p) ==
    SubSeq(conversationHistory[call[p].session], 1, 2 * turns[call[p].session])

\* what is decided for a request is decided from its own session: the conversation flags
\* are those of the session's own history, and the context that was loaded is the
\* session's own document
OwnSessionDecides ==
    \A p \in Procs :
        dispatched(p) /\ pc[p] # "idle"
        => /\ call[p].isInFlightConversation
                 = isOngoingFlightConversation(historyBefore(p))
           /\ call[p].isInPersonalConversation
                 = isOngoingPersonalConversation(historyBefore(p))
           /\ \/ call[p].existingContext = undefined
              \/ /\ sessionContexts[call[p].session].exists
                 /\ call[p].existingContext = sessionContexts[call[p].session].contextData

\* a step is the step of one request, and it leaves what the program holds for every
\* other session as it was
OtherSessionsKept ==
    \A p \in Procs :
        pc'[p] # pc[p]
        => \A s \in Sessions \ {call'[p].session} : sessionState(s)' = sessionState(s)

\* C12: requests of different sessions do not interfere: a request changes the history,
\* the flight fields, the user context and the stored context of its own session only,
\* and the routing flags and the loaded context of a request are those of its own session,
\* however the requests of the two sessions interleave.
SessionsIndependent == []OwnSessionDecides /\ [][OtherSessionsKept]_vars

\* a request of one session is answered under the flight floor of its own history while
\* a request of the other session, already dispatched, is still being served
FloorWhileOtherSessionServed ==
    /\ pc["p1"] # "idle" /\ dispatched("p1")
    /\ pc["p2"] # "idle" /\ dispatched("p2")
    /\ call["p1"].session # call["p2"].session
    /\ call["p2"].isInFlightConversation
    /\ ~call["p1"].isInFlightConversation
    /\ conversationHistory[call["p1"].session] # <<>>

(***************************************************************************)
(* The stored context                                                      *)
(***************************************************************************)
\* what a save that the store carried out leaves: the document of the session exists; a
\* new document holds the updates and nothing else; in a document that existed every key
\* of the updates has its new value and every other key its old one; the documents of
\* the other sessions are as they were
saved(p) ==
    LET s == call[p].session
        updates == call[p].contextUpdates
        old == sessionContexts[s]
        new == sessionContexts'[s]
    IN  /\ new.exists
        /\ IF old.exists
           THEN /\ DOMAIN new.contextData = DOMAIN old.contextData \cup DOMAIN updates
                /\ \A k \in DOMAIN updates : new.contextData[k] = updates[k]
                /\ \A k \in DOMAIN old.contextData \ DOMAIN updates :
                      new.contextData[k] = old.contextData[k]
           ELSE new.contextData = updates
        /\ \A t \in Sessions \ {s} : sessionContexts'[t] = sessionContexts[t]

\* what a load that the store carried out yields: the whole map of the session's document,
\* or undefined when the session has none; no document is changed
loaded(p) ==
    /\ call'[p].existingContext =
          IF sessionContexts[call[p].session].exists
          THEN sessionContexts[call[p].session].contextData ELSE undefined
    /\ sessionContexts' = sessionContexts

SavedOrLoaded ==
    \A p \in SerialProcs :
        /\ SaveSessionContext(p, TRUE) => saved(p)
        /\ LoadSessionContext(p, TRUE) => loaded(p)

\* C13: saveSessionContext merges the updates into the document of its own session only:
\* without a document one is created that holds exactly the updates, with a document
\* every key of the updates is set and every other key keeps its value; loadSessionContext
\* returns the whole stored map of the session, and undefined when there is no document.
StoreMergesOwnSession == [][SavedOrLoaded]_vars

\* a request has saved its updates beside a key that they do not name, while the other
\* session has a document of its own, and the next request of the session has loaded the
\* merged map
MergedMapLoaded ==
    \E p \in SerialProcs :
        /\ pc[p] = "extractContext"
        /\ call[p].existingContext # undefined
        /\ Cardinality(DOMAIN call[p].existingContext) = 3
        /\ call[p].existingContext = sessionContexts[call[p].session].contextData
        /\ sessionContexts["s2"].exists
        /\ sessionContexts["s2"].contextData # call[p].existingContext

(***************************************************************************)
(* The reset of a session                                                  *)
(***************************************************************************)
\* a request with isNewChat = true leaves, before its chat, what a new router holds: no
\* history, no flight fields, no user context, and the conversation state 'unknown' with
\* every flag false
ResetIsFresh ==
    \A p \in SerialProcs : \A s \in SerialSessions :
        (\E message \in UserMessages : StartChat(p, s, message, TRUE))
        => /\ conversationHistory'[s] = <<>>
           /\ DOMAIN conversationContext'[s] = {}
           /\ DOMAIN userContext'[s] = {}
           /\ conversationState'[s].currentIntent = "unknown"
           /\ conversationState'[s].flightContext
                 = [hasDeparture |-> FALSE, hasArrival |-> FALSE, hasDate |-> FALSE,
                    hasReturnDate |-> FALSE, lastAskedFor |-> <<>>]
           /\ conversationState'[s].personalContext
                 = [hasName |-> FALSE, hasLocation |-> FALSE, hasOccupation |-> FALSE]

\* the first chat of a history is routed on the raw scores of its message
FirstChatWithoutFloor ==
    \A p \in Procs :
        dispatched(p) /\ Len(conversationHistory[call[p].session]) <= 2
        => /\ ~call[p].isInFlightConversation
           /\ ~call[p].isInPersonalConversation
           /\ call[p].flightScore = rawScores(p).flightScore
           /\ call[p].personalScore = rawScores(p).personalScore

\* C14: after a reset (clearHistory, which a request with isNewChat = true makes before
\* its chat) the session's state in memory is that of a new router: empty history, empty
\* flight fields, empty user context, conversation state 'unknown' with all flags false;
\* so the first chat after a reset applies neither conversation floor.
ResetGivesNewRouter == []FirstChatWithoutFloor /\ [][ResetIsFresh]_vars

\* the second chat of a session began with a reset and has been dispatched; the document
\* that the first chat stored is still there and has been loaded
DispatchedAfterReset ==
    \E p \in SerialProcs :
        /\ dispatched(p) /\ pc[p] # "idle"
        /\ chats[call[p].session] = 2
        /\ Len(conversationHistory[call[p].session]) = 1
        /\ call[p].existingContext # undefined

(***************************************************************************)
(* The merge of the flight parameters                                      *)
(***************************************************************************)
\* C15: each of the six fields of the merged query is the turn's value when the turn has
\* one and the accumulated context's value otherwise, so that a field the turn does not
\* supply is never cleared; there is no merged query only when neither the turn nor the
\* context has an airport or an outbound date.
MergedFieldByField ==
    \A p \in SerialProcs :
        pc[p] = "returned"
        => IF call[p].extractedParams = null
           THEN \A f \in {"departureId", "arrivalId", "outboundDate"} :
                   /\ field(call[p].currentParams, f) = ""
                   /\ field(conversationContext[call[p].session], f) = ""
           ELSE \A f \in ParamFields :
                   /\ field(call[p].currentParams, f) # ""
                      => field(call[p].extractedParams, f) = field(call[p].currentParams, f)
                   /\ field(call[p].currentParams, f) = ""
                      => field(call[p].extractedParams, f)
                            = field(conversationContext[call[p].session], f)

\* the turn names a route and an outbound date but no return date, and the merged query
\* has the return date that an earlier turn left in the context
EarlierReturnDateKept ==
    \E p \in SerialProcs :
        /\ pc[p] = "returned"
        /\ call[p].currentParams # null
        /\ field(call[p].currentParams, "returnDate") = ""
        /\ field(call[p].currentParams, "outboundDate") = "2025-10-18"
        /\ field(call[p].extractedParams, "outboundDate") = "2025-10-18"
        /\ field(call[p].extractedParams, "returnDate") = "2025-11-12"

(***************************************************************************)
(* The extraction of the flight parameters                                 *)
(***************************************************************************)
\* request p has called extractFlightParams with the text of input i, and it has returned
extracted(p, i) == pc[p] = "returned" /\ call[p].message = inputText(i)

\* the words of three capital letters of input i, in the order they are written
tokensOf(i) == i.lead.tokens \o i.route.tokens

\* the airports of input i are resolved: two words of three capital letters, or else the
\* two cities of a "from ... to ..." route
airportsResolved(i) == Len(tokensOf(i)) >= 2 \/ Len(i.route.cities) = 2

\* a date of input i is resolved: a date in words or in a form that datePatterns lists
dateResolved(i) ==
    \/ i.date.form \in {"YYYY-MM-DD", "three-part", "two-part", "month-name", "natural"}
    \/ i.return.form = "YYYY-MM-DD"

\* C16: extractFlightParams returns params exactly when it resolved the departure, the
\* arrival and the outbound date; otherwise it returns null, also when it resolved one or
\* two of them, and what it resolved is lost.
AllThreeOrNull ==
    \A p \in SerialProcs : \A i \in ExtractInputs :
        extracted(p, i)
        => /\ call[p].currentParams # null <=> airportsResolved(i) /\ dateResolved(i)
           /\ call[p].currentParams # null
              => \A f \in {"departureId", "arrivalId", "outboundDate"} :
                    field(call[p].currentParams, f) # ""

\* two cities were resolved and no date, and the result is null
AirportsWithoutDateDropped ==
    \E p \in SerialProcs : \E i \in ExtractInputs :
        /\ extracted(p, i)
        /\ i.route.text = "from Mumbai to Pune" /\ i.lead.text = ""
        /\ i.date.form = "none" /\ i.return.form = "none"
        /\ extractedFields(call[p].message).departureId = "BOM"
        /\ extractedFields(call[p].message).arrivalId = "PNQ"
        /\ call[p].currentParams = null

\* the texts of the written date w: of its own year, and moved forward by one year
textsOf(w) == {formatDate(w.year, w.month, w.day), formatDate(w.year + 1, w.month, w.day)}

\* C17 as stated: the outbound date is the first date expression of the message; a return
\* date is set only when a return keyword matched or the message has a second date
\* expression, and then it is that expression; so a message with one date expression and
\* no return keyword has no return date.
OutboundFirstReturnSecond ==
    \A p \in SerialProcs : \A i \in ExtractInputs :
        extracted(p, i) /\ call[p].currentParams # null
        => /\ i.date.form # "none" /\ i.date.form # "slash"
              => field(call[p].currentParams, "outboundDate") \in textsOf(i.date.written)
           /\ i.return.form = "none"
              => field(call[p].currentParams, "returnDate") = ""
           /\ i.return.form # "none" /\ field(call[p].currentParams, "returnDate") # ""
              => field(call[p].currentParams, "returnDate") \in textsOf(i.return.written)

\* the written date w lies before the current date
beforeToday(w) ==
    \/ w.year < today.year
    \/ w.year = today.year /\ w.month < today.month
    \/ w.year = today.year /\ w.month = today.month /\ w.day < today.day

\* C18 as stated: a resolved date that lies before the current date is returned moved
\* forward by one year, whichever way it is written, and a resolved date on or after the
\* current date is returned as it is.  (The inputs are those whose only date is the
\* outbound date.)
PastDatesMovedForward ==
    \A p \in SerialProcs : \A i \in ExtractInputs :
        /\ extracted(p, i) /\ call[p].currentParams # null
        /\ i.return.form = "none" /\ i.date.form # "none" /\ i.date.form # "slash"
        => field(call[p].currentParams, "outboundDate")
              = IF beforeToday(i.date.written)
                THEN formatDate(i.date.written.year + 1, i.date.written.month,
                                i.date.written.day)
                ELSE formatDate(i.date.written.year, i.date.written.month,
                                i.date.written.day)

\* C19: a message with at least two words of three capital letters and a date that is
\* resolved yields params whose departureId is the first of these words and whose
\* arrivalId is the second, whatever else the message holds: other words, names of
\* cities, a currency code (itself such a word when written in capitals).
FirstTwoTokensAreAirports ==
    \A p \in SerialProcs : \A i \in ExtractInputs :
        extracted(p, i) /\ Len(tokensOf(i)) >= 2 /\ dateResolved(i)
        => /\ call[p].currentParams # null
           /\ field(call[p].currentParams, "departureId") = tokensOf(i)[1]
           /\ field(call[p].currentParams, "arrivalId") = tokensOf(i)[2]

\* a currency code, two cities and two airport codes: the currency code and the first
\* airport code are taken, and the cities are not looked at
CurrencyCodeTakenAsAirport ==
    \E p \in SerialProcs : \E i \in ExtractInputs :
        /\ extracted(p, i)
        /\ i.lead.text = "USD 500 " /\ Len(i.route.cities) = 2 /\ Len(i.route.tokens) = 2
        /\ i.date.form = "two-part"
        /\ call[p].currentParams # null
        /\ field(call[p].currentParams, "departureId") = "USD"
        /\ field(call[p].currentParams, "arrivalId") = "DEL"
        /\ field(call[p].currentParams, "currency") = "USD"

(***************************************************************************)
(* The range of the scores                                                 *)
(***************************************************************************)
\* x is a number from 0 to 1
inUnitInterval(x) ==
    /\ \A k \in 1..Len(x) : x[k] \in 0..(DigitBase - 1)
    /\ ~less(x, <<>>)
    /\ ~less(One, x)

\* C20: for every message calculateFlightConfidence and calculatePersonalConfidence each
\* return a value from 0 to 1: no combination of keyword hits, multipliers, bonuses and
\* penalties gives a negative value or a value above 1.0.
ScoresInUnitInterval ==
    \A p \in SerialProcs :
        pc[p] = "returned"
        => inUnitInterval(call[p].flightScore) /\ inUnitInterval(call[p].personalScore)

\* a message that hits many keyword groups of both functions: both scores are 1.0
BothScoresAtOne ==
    \E p \in SerialProcs :
        /\ pc[p] = "returned"
        /\ call[p].flightScore = One
        /\ call[p].personalScore = One

(***************************************************************************)
(* The requests generateResponse refuses                                   *)
(***************************************************************************)
\* a step in which generateResponse takes up the request of p
takesRequest(p) ==
    /\ pc[p] = "idle"
    /\ call[p].session = "" \/ call[p].status # 0
    /\ call'[p] # call[p]

noPrompt(request) ==
    request.prompt.type # "string" \/ request.prompt.value \in {"", " ", "  "}

\* the step leaves the routers, the assistants, the session contexts, the sessions and
\* the messages as they are, and no chat call is made
NothingTouched(p) ==
    /\ pc'[p] = "idle"
    /\ call'[p].session = ""
    /\ call'[p].invoked = <<>>
    /\ UNCHANGED <<conversationHistory, conversationState, conversationContext, userContext,
                   sessionContexts, chats, turns, chatSessions, messages>>

RefusedInOrder ==
    \A p \in Procs :
        takesRequest(p) =>
            LET request == call'[p].request
                status == call'[p].status
                malformed == request.sessionId # "" /\ request.sessionId \notin Sessions
                known == request.sessionId \in Sessions
                             /\ chatSessions[request.sessionId].exists
            IN  /\ noPrompt(request) => status = 400 /\ NothingTouched(p)
                /\ ~noPrompt(request) /\ request.userId = "" =>
                       status = 401 /\ NothingTouched(p)
                /\ ~noPrompt(request) /\ request.userId # "" /\ malformed =>
                       status = 400 /\ NothingTouched(p)
                /\ ~noPrompt(request) /\ request.userId # ""
                       /\ request.sessionId \in Sessions /\ ~known =>
                       status \in {404, 500} /\ NothingTouched(p)
                /\ ~noPrompt(request) /\ request.userId # "" /\ known
                       /\ chatSessions[request.sessionId].userId # request.userId =>
                       status \in {403, 500} /\ NothingTouched(p)

MessagesByOwner ==
    \A s \in Sessions :
        \A i \in 1..Len(messages[s]) :
            chatSessions[s].exists /\ messages[s][i].userId = chatSessions[s].userId

\* C21: generateResponse refuses, in this order, a prompt that is empty or no string
\* (400), a request without a user (401), a malformed session id (400), an unknown session
\* id (404) and the session of another user (403); a refused request calls no router and
\* leaves every session and every message as it is, so the messages of a session are
\* stored by requests of its owner only.  (500 stands in for 404 and 403 when the lookup
\* of the session throws.)
RequestsOfOthersRefused == []MessagesByOwner /\ [][RefusedInOrder]_vars

\* the session of the first user holds messages and the request of another user for it
\* has been refused with 403
ForeignRequestRefused ==
    \E p \in Procs :
        /\ call[p].status = 403
        /\ call[p].request.userId = "u2"
        /\ call[p].request.sessionId = "s1"
        /\ Len(messages["s1"]) = 2

(***************************************************************************)
(* normalizeDate                                                           *)
(***************************************************************************)
\* the results of normalizeDate on the date text of p and on its own result
normalizedOnce(p) == call[p].normalized[1]

normalizedTwice(p) == call[p].normalized[2]

\* C22: for a text x in the form YYYY-MM-DD, normalizeDate(x) = x, and so
\* normalizeDate(normalizeDate(x)) = normalizeDate(x)
IsoDateKept ==
    \A p \in Procs : \A d \in IsoDates :
        call[p].message = isoText(d) =>
            /\ Len(call[p].normalized) >= 1 => normalizedOnce(p) = isoText(d)
            /\ Len(call[p].normalized) = 2 => normalizedTwice(p) = normalizedOnce(p)

\* normalizeDate has been applied twice to a date in the form YYYY-MM-DD whose month and
\* day no calendar has
IsoDateNormalizedTwice ==
    \E p \in Procs :
        /\ call[p].message = "2025-13-32"
        /\ call[p].normalized = <<"2025-13-32", "2025-13-32">>

\* the day and the month of a numeric date: the part that exceeds 12 is the day, the
\* first part before the second; with no such part the first part is the day
dayOf(first, second) == IF first > 12 THEN first ELSE IF second > 12 THEN second ELSE first

monthOf(first, second) == IF first > 12 THEN second ELSE IF second > 12 THEN first ELSE second

\* the years a date may get: the written one, with 2000 added below 100, and this year
\* or the next for a date of two parts
yearsOf(year) ==
    IF year = "" THEN {today.year, today.year + 1}
    ELSE IF parseInt(year) < 100 THEN {parseInt(year) + 2000}
    ELSE {parseInt(year)}

twoDigits(n) == IF n < 10 THEN "0" \o toString(n) ELSE toString(n)

followUpWords == <<"departure", "arrival", "date", "when", "where", "destination", "return">>

\* the text of the turns holds a flight-continuation keyword
hasContinuationKeyword(recent) ==
    \E k \in 1..Len(flightContextKeywords) : recentTextIncludes(recent, flightContextKeywords[k])

asksFollowUp(turn) ==
    /\ turn.role = "assistant"
    /\ \E k \in 1..Len(followUpWords) : lowerIncludes(turn.message, followUpWords[k])

\* the turn of the user holds "from" or "to" somewhere, a date-like token or a month
givesFlightData(turn) ==
    /\ turn.role = "user"
    /\ \/ lowerIncludes(turn.message, "from")
       \/ lowerIncludes(turn.message, "to")
       \/ dateTokenIn(turn.message)

\* the turn of the user holds the word from or the word to, a date-like token or a month
givesFlightWords(turn) ==
    /\ turn.role = "user"
    /\ \/ hasAnyWord(lowerOf(turn.message), <<"from", "to">>)
       \/ dateTokenIn(turn.message)

\* the most recent turn of the role, if any, satisfies test
mostRecentTurn(recent, role, test(_)) ==
    \E n \in 1..Len(recent) :
        /\ recent[n].role = role
        /\ \A m \in (n + 1)..Len(recent) : recent[m].role # role
        /\ test(recent[n])

\* C23, as amended: isOngoingFlightConversation is true exactly when the history has at
\* least two entries and, among its six most recent turns, the joined text holds a
\* flight-continuation keyword, or some turn of the assistant mentions departure, arrival,
\* date, when, where, destination or return, or some turn of the user holds "from" or "to"
\* as a substring, a date-like token or a month abbreviation; older turns play no part
AnyRecentTurnDecides ==
    \A p \in Procs :
        pc[p] = "returned" =>
            LET history == conversationHistory[call[p].session]
                recent == lastN(history, 6)
            IN  call[p].isInFlightConversation
                    <=> /\ Len(history) >= 2
                        /\ \/ hasContinuationKeyword(recent)
                           \/ \E n \in 1..Len(recent) : asksFollowUp(recent[n])
                           \/ \E n \in 1..Len(recent) : givesFlightData(recent[n])

\* C23, as stated: the flag is true exactly when the history has at least two entries and
\* the recent text holds a flight-continuation keyword, or the most recent turn of the
\* assistant mentions one of the seven words, or the most recent turn of the user holds a
\* from/to word, a date-like token or a month abbreviation
MostRecentTurnsDecide ==
    \A p \in Procs :
        pc[p] = "returned" =>
            LET history == conversationHistory[call[p].session]
                recent == lastN(history, 6)
            IN  call[p].isInFlightConversation
                    <=> /\ Len(history) >= 2
                        /\ \/ hasContinuationKeyword(recent)
                           \/ mostRecentTurn(recent, "assistant", asksFollowUp)
                           \/ mostRecentTurn(recent, "user", givesFlightWords)

\* the flag is true for a history whose last chat has nothing of a flight and whose chat
\* before it began with a date
EarlierTurnKeepsFlag ==
    \E p \in Procs :
        /\ pc[p] = "returned"
        /\ call[p].isInFlightConversation
        /\ conversationHistory[call[p].session] =
              <<[role |-> "user", message |-> msgShortDate],
                [role |-> "assistant", message |-> genNeutral],
                [role |-> "user", message |-> msgGreeting],
                [role |-> "assistant", message |-> genNeutral]>>

(***************************************************************************)
(* The guard of processFlightQuery against several routes                  *)
(***************************************************************************)
\* the flight assistant has been called with a message that holds several routes
guardFired(p) == call[p].handler = "flight" /\ rawScores(p).multipleRoutes

GuardAnswer ==
    \A p \in Procs :
        returned(p) /\ guardFired(p)
        => /\ response[p].response = multiRouteReply
           /\ response[p].metadata.requiresMoreInfo = "true"
           /\ response[p].flightData = "undefined"
           /\ response[p].metadata.searchParams = undefined
           /\ call[p].extractions = 0
           /\ call[p].searches = 0
           /\ call[p].generations = 0

GuardKeepsContext ==
    \A p \in Procs :
        pc[p] = "loadSessionContext" /\ call'[p].handler = "flight"
            /\ messageFacts[call[p].message].multipleRoutes
        => /\ pc'[p] = "idle"
           /\ conversationContext' = conversationContext

\* C24: when the message holds several routes, processFlightQuery returns the fixed reply
\* with requiresMoreInfo = true and without flightData or searchParams, calls neither the
\* parameter extractor nor the flight search nor the generative text service, and leaves
\* the accumulated flight context as it is
GuardAnswersAlone == []GuardAnswer /\ [][GuardKeepsContext]_vars

\* the guard has answered a chat of a session whose flight assistant holds the parameters
\* of an earlier query
GuardFiredOverContext ==
    \E p \in Procs :
        /\ returned(p)
        /\ guardFired(p)
        /\ field(conversationContext[call[p].session], "departureId") = "PEK"


\* the weight of keyword group g when one of its keywords occurs in the message, else 0
weightOfHit(lowerMessage, g) ==
    IF \E k \in 1..Len(flightKeywords[g].keywords) : includes(lowerMessage, flightKeywords[g].keywords[k])
    THEN flightKeywords[g].weight ELSE <<>>

\* S: the sum of the weights of the groups with a hit, each group once
sumOfHitGroups(lowerMessage) ==
    plus(plus(plus(plus(plus(plus(plus(plus(<<>>,
        weightOfHit(lowerMessage, 1)), weightOfHit(lowerMessage, 2)), weightOfHit(lowerMessage, 3)),
        weightOfHit(lowerMessage, 4)), weightOfHit(lowerMessage, 5)), weightOfHit(lowerMessage, 6)),
        weightOfHit(lowerMessage, 7)), weightOfHit(lowerMessage, 8))

factor(applies, n) == IF applies THEN Dec(n, 1) ELSE One

\* M: 1.3 city, 1.2 date, 1.4 travel intent, 1.1 question mark, 1.2 urgency
productOfMultipliers(message) ==
    times(times(times(times(factor(hasCityMentions(message), 13), factor(hasDateMentions(message), 12)),
        factor(hasTravelIntent(message), 14)), factor(includes(message, "?"), 11)),
        factor(hasUrgencyWords(message), 12))

competingTransport(lowerMessage) ==
    \E w \in {"train", "bus", "car", "drive", "walk"} : includes(lowerMessage, w)

actionVerb(lowerMessage) ==
    \E w \in {"show", "find", "search", "look", "check", "available", "availability"} :
        includes(lowerMessage, w)

\* min(1.0, S * M * P + B)
confidenceFormula(message, lowerMessage) ==
    MathMin(plus(times(times(sumOfHitGroups(lowerMessage), productOfMultipliers(message)),
                       factor(competingTransport(lowerMessage), 7)),
                 IF actionVerb(lowerMessage) THEN Dec(1, 1) ELSE <<>>),
            One)

\* C25: calculateFlightConfidence(message) is min(1.0, S * M * P + B): S sums the weights of
\* the keyword groups with at least one hit (each group once), M is the product of the
\* context multipliers that apply, P is 0.7 when a competing-transport word occurs, and the
\* bonus B of 0.1 for an action verb is added after multiplier and penalty and not scaled.
ConfidenceIsFormula ==
    \A p \in SerialProcs :
        pc[p] = "returned"
        => call[p].flightScore = confidenceFormula(call[p].message, toLowerCase(call[p].message))

\* a message with two keywords of one group, a competing-transport word and an action
\* verb, whose score stays below 1.0
PenaltyAndBonusBelowOne ==
    \E p \in SerialProcs :
        /\ pc[p] = "returned"
        /\ includes(call[p].message, "flights")
        /\ competingTransport(toLowerCase(call[p].message))
        /\ actionVerb(toLowerCase(call[p].message))
        /\ less(call[p].flightScore, One)
        /\ less(<<>>, call[p].flightScore)


\* params holds departureId, arrivalId and outboundDate
holdsAllThree(params) ==
    /\ params # null
    /\ \A f \in {"departureId", "arrivalId", "outboundDate"} : f \in DOMAIN params /\ params[f] # ""

\* C27: the flight assistant's accumulated flight context is always empty or holds all of
\* departureId, arrivalId and outboundDate; the merged query of a call is null or holds all
\* three, so no call waits for the clarification of a partial query and every search is
\* made with all three fields.
ContextEmptyOrComplete ==
    /\ \A s \in Sessions :
          conversationContext[s] = emptyParams \/ holdsAllThree(conversationContext[s])
    /\ \A p \in Procs :
          /\ call[p].extractedParams = null \/ holdsAllThree(call[p].extractedParams)
          /\ call[p].missingInfo = <<>>
          /\ pc[p] # "getContextualClarification"
          /\ (pc[p] = "searchFlights" \/ call[p].searches > 0)
             => holdsAllThree(call[p].extractedParams)

\* a search made for a message without flight data of its own: the query is merged from
\* the history and the context that an earlier chat has filled
SearchFromContext ==
    \E p \in Procs :
        /\ call[p].searches > 0
        /\ call[p].extractions = 2
        /\ holdsAllThree(conversationContext[call[p].session])
        /\ call[p].extractedParams = conversationContext[call[p].session]


\* C28: the routing decision is monotone in the scores: when the flight assistant is
\* selected for (f, p) it is selected for (f', p) with f' >= f, and when the personal
\* assistant is selected for (f, p) it is selected for (f, p') with p' >= p.
RoutingMonotone ==
    \A p \in Procs : \A q \in Procs :
        pc[p] = "returned" /\ pc[q] = "returned"
        => /\ ( /\ call[p].handler = "flight"
                /\ call[q].personalScore = call[p].personalScore
                /\ ~less(call[q].flightScore, call[p].flightScore) )
              => call[q].handler = "flight"
           /\ ( /\ call[p].handler = "personal"
                /\ call[q].flightScore = call[p].flightScore
                /\ ~less(call[q].personalScore, call[p].personalScore) )
              => call[q].handler = "personal"

\* the flight assistant is selected under the strict threshold 0.5 and, for a greater
\* flight score and the same personal score, under the lenient threshold 0.25
DecisionKeptAcrossThresholds ==
    \E p \in Procs : \E q \in Procs :
        /\ pc[p] = "returned" /\ pc[q] = "returned"
        /\ call[p].handler = "flight" /\ call[q].handler = "flight"
        /\ call[q].personalScore = call[p].personalScore
        /\ less(call[p].flightScore, call[q].flightScore)
        /\ call[p].flightThreshold = Dec(5, 1)
        /\ call[q].flightThreshold = Dec(25, 2)

\* the personal assistant is selected below the threshold 0.3 and, for a greater personal
\* score and the same flight score, below the strict threshold 0.5
PersonalKeptAcrossThresholds ==
    \E p \in Procs : \E q \in Procs :
        /\ pc[p] = "returned" /\ pc[q] = "returned"
        /\ call[p].handler = "personal" /\ call[q].handler = "personal"
        /\ call[q].flightScore = call[p].flightScore
        /\ less(call[p].personalScore, call[q].personalScore)
        /\ less(call[p].personalScore, call[p].flightScore)
        /\ call[p].flightThreshold = Dec(3, 1)
        /\ call[q].flightThreshold = Dec(5, 1)


\* the turns decide for an ongoing flight conversation
turnsDecide(recent) ==
    \/ hasContinuationKeyword(recent)
    \/ \E n \in 1..Len(recent) : asksFollowUp(recent[n])
    \/ \E n \in 1..Len(recent) : givesFlightData(recent[n])

\* the history of the n-th chat of a session after the selection of the assistant: the
\* message of chat k is entry 2k - 1, its reply entry 2k
historyOfChats(history, n, message) ==
    /\ Len(history) \in {2 * n - 1, 2 * n}
    /\ \A i \in 1..Len(history) : history[i].role = (IF i % 2 = 1 THEN "user" ELSE "assistant")
    /\ history[2 * n - 1].message = message

\* C29: with serialized calls and no reset, a user message with flight-shaped data makes
\* isOngoingFlightConversation true, and the flight score at least 0.7, in each of the next
\* three chats of the session whatever they say; in the fourth following chat the message is
\* outside the six most recent entries and the flag depends on the three chats between only.
FlagLastsThreeChats ==
    \A p \in SerialProcs :
        call[p].handler # "" =>
            LET history == conversationHistory[call[p].session]
                n == chats[call[p].session]
            IN  /\ historyOfChats(history, n, call[p].message)
                /\ \A k \in 1..(n - 1) :
                      (n - k <= 3 /\ givesFlightData(history[2 * k - 1]))
                      => /\ call[p].isInFlightConversation
                         /\ ~less(call[p].flightScore, Dec(7, 1))
                /\ n >= 5 =>
                      (call[p].isInFlightConversation
                          <=> turnsDecide(SubSeq(history, 2 * n - 7, 2 * n - 2)))

\* the fifth chat after an opening date and three chats without flight data or flight
\* words: the flag is false
FlagGoneAtFourthChat ==
    \E p \in SerialProcs :
        /\ call[p].handler # ""
        /\ chats[call[p].session] = 5
        /\ givesFlightData(conversationHistory[call[p].session][1])
        /\ ~call[p].isInFlightConversation


\* a step that changes the SessionContext document of a session is the save of a request
\* of that session which the personal assistant has answered with context updates
RecordWrittenBySave ==
    \A s \in Sessions :
        sessionContexts'[s] # sessionContexts[s]
        => \E p \in Procs :
              /\ pc[p] = "saveSessionContext"
              /\ call[p].session = s
              /\ call[p].handler = "personal"
              /\ call[p].contextUpdates # undefined
              /\ DOMAIN call[p].contextUpdates # {}

\* a lookup that the store carries out yields every stored fact of the session, and the
\* personal path copies each of them into the user context
StoredFactsLoaded ==
    \A p \in SerialProcs :
        LoadSessionContext(p, TRUE)
        => LET s == call[p].session
               stored == sessionContexts[s]
           IN  stored.exists
               => /\ call'[p].existingContext = stored.contextData
                  /\ call'[p].handler = "personal"
                     => \A key \in DOMAIN stored.contextData :
                           /\ key \in DOMAIN userContext'[s]
                           /\ userContext'[s][key] = stored.contextData[key]

\* C30: clearHistory and a request with isNewChat leave the stored session context as it
\* is and the flight path never writes it: the document of a session changes only in the
\* save of a personal-path chat with at least one context update; so the facts stored
\* before a reset are loaded by the next chat of the session and copied into the user
\* context when that chat takes the personal path.
StoredContextSurvivesReset == [][RecordWrittenBySave]_vars /\ [][StoredFactsLoaded]_vars

\* a request that reset the session has loaded the facts stored before and the personal
\* assistant, whose user context the reset had emptied, holds them again
FactsBackAfterReset ==
    \E p \in SerialProcs :
        /\ call[p].request.isNewChat
        /\ call[p].handler = "personal"
        /\ pc[p] = "extractContext"
        /\ call[p].existingContext # undefined
        /\ DOMAIN call[p].existingContext # {}
        /\ call[p].existingContext = sessionContexts[call[p].session].contextData
        /\ userContext[call[p].session] = call[p].existingContext

====
